---- MODULE Spec2Model ----
(***************************************************************************)
(* A model of the Sonalex client SDK: the governance permission check      *)
(* (lib/multisig.ts), the oracle account decoder and the oracle and router *)
(* instruction builders (sdk/instructions).                                *)
(*                                                                         *)
(* The specifications share the variables:                                 *)
(*   SpecAuth    hasGovernancePermission against a changing ledger         *)
(*   SpecDecode  parseOracleData, fetchOracle, fetchAllOracles             *)
(*   SpecBuild   the instruction builders                                  *)
(*   SpecDerive  the address derivation helpers (sdk/pda)                  *)
(*   SpecButton  MultisigProposalButton and its ConfirmationModal          *)
(*   SpecGuard   PermissionGuard                                           *)
(*   SpecMonitor OracleMonitor's loadOracles                               *)
(*   SpecClient  PercolatorClient's calls of one user                      *)
(***************************************************************************)
EXTENDS Integers, Sequences, FiniteSets, TLC

VARIABLES
    \* ---- governance permission check (lib/multisig.ts) ----
    govAccount,     \* the ledger account stored at the governance address
    hpc,            \* position of the hasGovernancePermission call
    wallet,         \* its walletAddress argument
    governance,     \* its governanceAddress argument
    isMultisig,     \* its local isMultisig: "none" until isSquadsMultisig answered
    hresult,        \* the value the call resolved with
    hraised,        \* TRUE when the call rejected (an exception escaped)
    transportFailed,\* TRUE when a fetch of this call failed in transport
    changedDuring,  \* TRUE when the ledger account changed since the call began
    prev,           \* the latest answer of isMultisigMember, and for which wallet
    during,         \* what the ledger states of this call would decide, and what it read
    consoleLog,     \* what console.error has printed
    \* ---- oracle account decoder (sdk/instructions/oracle.ts) ----
    dpc,            \* "idle", "parsed", "fetched", "awaitAccounts", "batchDone"
    data,           \* the buffer handed to parseOracleData
    parsed,         \* what the decoder call produced
    accounts,       \* fetchAllOracles: what getProgramAccounts returned
    oracles,        \* fetchAllOracles: the result array
    \* ---- instruction builders (sdk/instructions) ----
    bop,            \* the builder that ran ("none" before any)
    bargs,          \* its arguments
    ix,             \* what it returned
    ix2,            \* what a second call with the same arguments returned
    \* ---- address derivation (sdk/pda) ----
    offCurve,       \* the hash: per seed bucket, the bumps that give a valid address
    dfirst,         \* the first derivation made: the call and what it returned
    dlast,          \* the latest derivation made
    dothers,        \* a derivation with other inputs was made after the first
    \* ---- the connected wallet (useWallet) ----
    walletKey,      \* wallet.publicKey, NoKey when no wallet is connected
    canSign,        \* the wallet adapter offers signTransaction
    \* ---- MultisigProposalButton and its ConfirmationModal ----
    showConfirmation,       \* the button's state: the confirmation modal is open
    isMultisigState,        \* the button's state isMultisig: "null", "true", "false"
    showSquadsInstructions, \* the button's state: the Squads instructions are shown
    proposalInstructions,   \* the button's state: what the instructions show
    requireTyping,  \* the prop requireTyping, "" when it is not given
    typedText,      \* the modal's state typedText
    alertText,      \* what the latest alert() said
    kpc,            \* position of the handleClick in progress
    mpc,            \* position of the handleConfirm in progress
    mloading,       \* the modal's state loading
    click,          \* the course of the latest click
    userConfirmed,  \* the user pressed Confirm since the modal was opened
    signed,         \* the wallet signed a transaction since the modal was opened
    sent,           \* a transaction was sent since the modal was opened
    lastConfirm,    \* the latest call of onConfirm: what the modal showed, and how it ended
    \* ---- PermissionGuard ----
    requiredPermission,     \* its prop
    envGovernance,  \* process.env.NEXT_PUBLIC_GOVERNANCE_WALLET
    envInsurance,   \* process.env.NEXT_PUBLIC_INSURANCE_AUTHORITY
    hasPermission,  \* its state hasPermission
    gloading,       \* its state loading
    effectPending,  \* the checkPermission effect is scheduled and has not run
    view,           \* what the latest render returned
    \* ---- OracleMonitor ----
    envOracleProgramId,     \* process.env.NEXT_PUBLIC_ORACLE_PROGRAM_ID
    now,            \* the clock, in whole seconds
    lpc,            \* position of the loadOracles in progress
    monOracles,     \* its state oracles
    monLoading,     \* its state loading
    monError,       \* its state error, "null" when there is none
    \* ---- PercolatorClient ----
    portfolioAccount,       \* the ledger account at the user's portfolio address
    calls           \* the client calls in progress, and what each has done

authVars == <<govAccount, hpc, wallet, governance, isMultisig, hresult, hraised,
              transportFailed, changedDuring, prev, during>>
decVars == <<dpc, data, parsed, accounts, oracles>>
bldVars == <<bop, bargs, ix, ix2>>
pdaVars == <<offCurve, dfirst, dlast, dothers>>
walletVars == <<walletKey, canSign>>
btnVars == <<showConfirmation, isMultisigState, showSquadsInstructions,
             proposalInstructions, requireTyping, typedText, kpc, mpc, mloading,
             alertText, click, userConfirmed, signed, sent, lastConfirm>>
grdVars == <<requiredPermission, envGovernance, envInsurance, hasPermission,
             gloading, effectPending, view>>
uiVars == <<walletVars, btnVars, grdVars>>
monVars == <<envOracleProgramId, now, lpc, monOracles, monLoading, monError>>
cliVars == <<portfolioAccount, calls>>
appVars == <<monVars, cliVars>>
vars == <<authVars, consoleLog, decVars, bldVars, pdaVars, uiVars, appVars>>

(***************************************************************************)
(* Bounds of the model.                                                    *)
(***************************************************************************)
NumKeys == 2        \* distinct public keys in play
MaxConsole == 1     \* console.error lines kept
MaxThreshold == 2   \* thresholds 1..MaxThreshold of a multisig record
MaxBatch == 3       \* accounts getProgramAccounts may return
NumBuckets == 2     \* classes of seed lists the hash is sampled on
MaxTicks == 2       \* seconds the clock advances
NumCalls == 2       \* client calls in progress at a time
NowBase == 1000     \* the clock when the monitor is mounted
MonitorBatch == 2   \* oracle accounts the monitor's program may hold

(***************************************************************************)
(* Bytes and public keys.  A PublicKey is its 32 bytes.                    *)
(***************************************************************************)
Zeros(n) == [i \in 1..n |-> 0]

Key(n) == [i \in 1..32 |-> IF i = 1 THEN n ELSE 0]

Keys == {Key(n) : n \in 1..NumKeys}

PublicKeyEquals(a, b) == a = b

NoKey == Zeros(32)

(***************************************************************************)
(* GOVERNANCE PERMISSION CHECK                                             *)
(*                                                                         *)
(* The ledger account at the governance address is absent, holds data that *)
(* is no Squads multisig, or holds a multisig record: a non-empty member   *)
(* list and a threshold.                                                   *)
(***************************************************************************)
NoAccount == [kind |-> "absent", members |-> {}, threshold |-> 0]

OtherAccount == [kind |-> "other", members |-> {}, threshold |-> 0]

MultisigAccounts ==
    {[kind |-> "multisig", members |-> m, threshold |-> t] :
        m \in (SUBSET Keys) \ {{}}, t \in 1..MaxThreshold}

LedgerAccounts == {NoAccount, OtherAccount} \cup MultisigAccounts

\* multisig.accounts.Multisig.fromAccountAddress(connection, address): throws
\* when the transport fails, when no account is found and when the data does
\* not deserialize as a Multisig; otherwise returns the decoded account.
FromAccountAddress(acct, transportOk) ==
    IF ~transportOk THEN [threw |-> TRUE, account |-> NoAccount]
    ELSE IF acct.kind # "multisig" THEN [threw |-> TRUE, account |-> NoAccount]
    ELSE [threw |-> FALSE, account |-> acct]

\* A variant of isSquadsMultisig without its try/catch.
isSquadsMultisig_NoCatch(fetched) ==
    IF fetched.threw THEN [ret |-> FALSE, threw |-> TRUE]
    ELSE [ret |-> TRUE, threw |-> FALSE]

\* isSquadsMultisig: the fetched account is never null when the fetch returns;
\* every exception is caught and answered false.
isSquadsMultisig(fetched) ==
    IF fetched.threw THEN [ret |-> FALSE, threw |-> FALSE]
    ELSE [ret |-> fetched.account.kind # "null", threw |-> FALSE]

\* A variant of isMultisigMember whose predicate forgets the comparison.
isMultisigMember_AnyMember(fetched, walletAddress) ==
    IF fetched.threw THEN [ret |-> FALSE, threw |-> FALSE, logged |-> TRUE]
    ELSE [ret |-> fetched.account.members # {}, threw |-> FALSE, logged |-> FALSE]

\* A variant of isMultisigMember that answers a wallet it has answered in
\* the previous call from memory.
isMultisigMember_Remembered(fetched, walletAddress) ==
    IF prev.wallet = walletAddress
    THEN [ret |-> prev.result, threw |-> FALSE, logged |-> FALSE]
    ELSE IF fetched.threw THEN [ret |-> FALSE, threw |-> FALSE, logged |-> TRUE]
    ELSE [ret |-> \E member \in fetched.account.members :
                      PublicKeyEquals(member, walletAddress),
          threw |-> FALSE, logged |-> FALSE]

\* A variant of isMultisigMember that answers true when the fetch throws.
isMultisigMember_GrantsOnError(fetched, walletAddress) ==
    IF fetched.threw THEN [ret |-> TRUE, threw |-> FALSE, logged |-> TRUE]
    ELSE [ret |-> \E member \in fetched.account.members :
                      PublicKeyEquals(member, walletAddress),
          threw |-> FALSE, logged |-> FALSE]

\* isMultisigMember: members.some(member => member.key.equals(walletAddress));
\* an exception is logged with console.error and answered false.
isMultisigMember(fetched, walletAddress) ==
    IF fetched.threw THEN [ret |-> FALSE, threw |-> FALSE, logged |-> TRUE]
    ELSE [ret |-> \E member \in fetched.account.members :
                      PublicKeyEquals(member, walletAddress),
          threw |-> FALSE, logged |-> FALSE]

\* No call has asked isMultisigMember yet.
NoPrev == [wallet |-> NoKey, result |-> FALSE]

\* The decision one ledger state stands for: the wallet is the governance
\* address, or the account is a committee listing the wallet.
Decision(acct, w, g) ==
    \/ PublicKeyEquals(w, g)
    \/ acct.kind = "multisig" /\ w \in acct.members

\* No call is in progress.
NoDuring == [grant |-> FALSE, deny |-> FALSE, readMember |-> FALSE]

AuthIdle ==
    /\ prev = NoPrev
    /\ during = NoDuring
    /\ hpc = "idle"
    /\ wallet = NoKey
    /\ governance = NoKey
    /\ isMultisig = "none"
    /\ hresult = FALSE
    /\ hraised = FALSE
    /\ transportFailed = FALSE
    /\ changedDuring = FALSE

\* hasGovernancePermission, up to its first await: check 1, the direct match.
HGP_Call(w, g) ==
    /\ hpc = "idle"
    /\ wallet' = w
    /\ governance' = g
    /\ IF PublicKeyEquals(w, g)
       THEN hpc' = "done" /\ hresult' = TRUE
       ELSE hpc' = "squads" /\ hresult' = FALSE
    /\ during' = [grant |-> Decision(govAccount, w, g),
                  deny |-> ~Decision(govAccount, w, g),
                  readMember |-> FALSE]
    /\ UNCHANGED <<govAccount, isMultisig, hraised, transportFailed, changedDuring,
                   prev, consoleLog, decVars, bldVars, pdaVars, uiVars, appVars>>

\* await isSquadsMultisig(connection, governanceAddress)
HGP_IsSquads(transportOk) ==
    /\ hpc = "squads"
    /\ LET fetched == FromAccountAddress(govAccount, transportOk)
           r == isSquadsMultisig(fetched)
       IN /\ transportFailed' = (transportFailed \/ ~transportOk)
          /\ IF r.threw
             THEN hpc' = "done" /\ hraised' = TRUE /\ UNCHANGED <<isMultisig, hresult>>
             ELSE /\ isMultisig' = IF r.ret THEN "true" ELSE "false"
                  /\ hpc' = IF r.ret THEN "member" ELSE "done"
                  /\ hresult' = FALSE
                  /\ UNCHANGED hraised
          /\ during' = [during EXCEPT !.readMember =
                            @ \/ (~fetched.threw /\ wallet \in fetched.account.members)]
    /\ UNCHANGED <<govAccount, wallet, governance, changedDuring, prev, consoleLog,
                   decVars, bldVars, pdaVars, uiVars, appVars>>

\* return await isMultisigMember(connection, governanceAddress, walletAddress)
HGP_IsMember(transportOk) ==
    /\ hpc = "member"
    /\ LET fetched == FromAccountAddress(govAccount, transportOk)
           r == isMultisigMember(fetched, wallet)
       IN /\ r.logged => Len(consoleLog) < MaxConsole
          /\ transportFailed' = (transportFailed \/ ~transportOk)
          /\ consoleLog' = IF r.logged
                           THEN Append(consoleLog, "Error checking multisig membership:")
                           ELSE consoleLog
          /\ hpc' = "done"
          /\ hresult' = (~r.threw /\ r.ret)
          /\ hraised' = r.threw
          /\ during' = [during EXCEPT !.readMember =
                            @ \/ (~fetched.threw /\ wallet \in fetched.account.members)]
    /\ UNCHANGED <<govAccount, wallet, governance, isMultisig, changedDuring, prev,
                   decVars, bldVars, pdaVars, uiVars, appVars>>

\* The caller takes the answer; the next call starts from nothing.
HGP_Return ==
    /\ hpc = "done"
    /\ hpc' = "idle"
    /\ wallet' = NoKey
    /\ governance' = NoKey
    /\ isMultisig' = "none"
    /\ hresult' = FALSE
    /\ hraised' = FALSE
    /\ transportFailed' = FALSE
    /\ changedDuring' = FALSE
    /\ prev' = IF isMultisig = "true"
               THEN [wallet |-> wallet, result |-> hresult]
               ELSE prev
    /\ during' = NoDuring
    /\ UNCHANGED <<govAccount, consoleLog, decVars, bldVars, pdaVars, uiVars, appVars>>

\* The committee (or whoever owns the address) changes the account on the ledger.
LedgerChange(acct) ==
    /\ acct # govAccount
    /\ govAccount' = acct
    /\ changedDuring' = (changedDuring \/ hpc # "idle")
    /\ during' = IF hpc \in {"squads", "member"}
                 THEN [during EXCEPT !.grant = @ \/ Decision(acct, wallet, governance),
                                     !.deny = @ \/ ~Decision(acct, wallet, governance)]
                 ELSE during
    /\ UNCHANGED <<hpc, wallet, governance, isMultisig, hresult, hraised, transportFailed,
                   prev, consoleLog, decVars, bldVars, pdaVars, uiVars, appVars>>

DecIdle ==
    /\ dpc = "idle"
    /\ data = <<>>
    /\ parsed = [kind |-> "none"]
    /\ accounts = <<>>
    /\ oracles = <<>>

BldIdle ==
    /\ bop = "none"
    /\ bargs = [op |-> "none"]
    /\ ix = [kind |-> "none"]
    /\ ix2 = [kind |-> "none"]

Buckets == 0..(NumBuckets - 1)

NoCall == [call |-> [helper |-> "none", args |-> <<>>], result |-> [threw |-> "none"]]

NoDerivation ==
    /\ dfirst = NoCall
    /\ dlast = NoCall
    /\ dothers = FALSE

PdaIdle ==
    /\ offCurve = [b \in Buckets |-> {255}]
    /\ NoDerivation

\* useState<string>(''): no instructions were generated.
NoInstructions == [generated |-> FALSE, threshold |-> 0, members |-> {}]

\* No click was made yet.
NoClick == [hadWallet |-> FALSE, checked |-> FALSE, detected |-> "none", info |-> NoInstructions, built |-> FALSE, ended |-> "none"]

\* The component as useState initialises it, no handler in progress.
\* onConfirm was not called.
NoConfirm == [result |-> "none", open |-> FALSE, loading |-> FALSE, typed |-> ""]

BtnIdle ==
    /\ showConfirmation = FALSE
    /\ isMultisigState = "null"
    /\ showSquadsInstructions = FALSE
    /\ proposalInstructions = NoInstructions
    /\ typedText = ""
    /\ alertText = ""
    /\ kpc = "idle"
    /\ mpc = "idle"
    /\ mloading = FALSE
    /\ click = NoClick
    /\ userConfirmed = FALSE
    /\ signed = FALSE
    /\ sent = FALSE
    /\ lastConfirm = NoConfirm

\* An environment variable that is not set.
EnvUnset == [kind |-> "unset", key |-> NoKey]

\* The guard before it is mounted.
GrdIdle ==
    /\ requiredPermission = "public"
    /\ envGovernance = EnvUnset
    /\ envInsurance = EnvUnset
    /\ hasPermission = FALSE
    /\ gloading = TRUE
    /\ effectPending = FALSE
    /\ view = "unmounted"

\* OracleMonitor as useState initialises it, before its first effect.
MonIdle ==
    /\ envOracleProgramId = "unset"
    /\ now = NowBase
    /\ lpc = "idle"
    /\ monOracles = <<>>
    /\ monLoading = TRUE
    /\ monError = "null"

\* No account at the portfolio address.
NoPortfolio == [found |-> FALSE, owner |-> NoKey]

\* No amount was given.
NoAmount == [neg |-> FALSE, mag |-> <<0, 0, 0, 0, 0>>]

\* A client call that was not made.
NoClientCall == [op |-> "none", pc |-> "idle", amount |-> NoAmount, info |-> NoPortfolio, exists |-> "none", tx |-> [kind |-> "none"], submitted |-> FALSE, outcome |-> "none"]

CliIdle ==
    /\ portfolioAccount = NoPortfolio
    /\ calls = [c \in 1..NumCalls |-> NoClientCall]

AppIdle ==
    /\ MonIdle
    /\ CliIdle

UiIdle ==
    /\ walletKey = NoKey
    /\ canSign = FALSE
    /\ requireTyping = ""
    /\ BtnIdle
    /\ GrdIdle

InitAuth ==
    /\ govAccount \in LedgerAccounts
    /\ AuthIdle
    /\ consoleLog = <<>>
    /\ DecIdle
    /\ BldIdle
    /\ PdaIdle
    /\ UiIdle
    /\ AppIdle

NextAuth ==
    \/ \E w \in Keys, g \in Keys : HGP_Call(w, g)
    \/ \E ok \in BOOLEAN : HGP_IsSquads(ok)
    \/ \E ok \in BOOLEAN : HGP_IsMember(ok)
    \/ HGP_Return
    \/ \E acct \in LedgerAccounts : LedgerChange(acct)

SpecAuth == InitAuth /\ [][NextAuth]_vars

(***************************************************************************)
(* Claims about the governance permission check (under SpecAuth).          *)
(***************************************************************************)
\* The governance address held one and the same multisig record during the
\* whole call, and every fetch of the call reached the ledger.
CommitteeThroughout ==
    /\ govAccount.kind = "multisig"
    /\ ~changedDuring
    /\ ~transportFailed

\* C1 as stated: when the governance address decodes as a committee record,
\* hasGovernancePermission answers true if and only if the wallet is in the
\* member list; every wallet outside the list is denied.
C1_MemberIffGranted ==
    (hpc = "done" /\ CommitteeThroughout)
        => (hresult <=> wallet \in govAccount.members)

\* C1 amended: against a committee record hasGovernancePermission answers
\* true if and only if the wallet is in the member list or equals the
\* governance address itself, whatever the threshold, and does not raise.
C1_MemberOrDirectMatch ==
    (hpc = "done" /\ CommitteeThroughout)
        => /\ ~hraised
           /\ hresult <=> (\/ wallet = governance
                           \/ wallet \in govAccount.members)

\* A member is granted by a record whose threshold exceeds its member count.
C1_Witness ==
    /\ hpc = "done"
    /\ CommitteeThroughout
    /\ wallet # governance
    /\ govAccount.members = {wallet}
    /\ govAccount.threshold = 2
    /\ isMultisig = "true"
    /\ hresult

\* C2: when isSquadsMultisig did not answer true (the fetch or the decode
\* failed for whatever reason), the authority is a single key: the call
\* answers true if and only if the wallet equals the governance address, and
\* it never raises.
C2_SingleKeyFallback ==
    (hpc = "done" /\ isMultisig # "true")
        => /\ ~hraised
           /\ hresult <=> (wallet = governance)

\* isSquadsMultisig answered false for data that is no multisig: denied.
C2_Witness ==
    /\ hpc = "done"
    /\ isMultisig = "false"
    /\ govAccount.kind = "other"
    /\ ~changedDuring
    /\ wallet # governance
    /\ ~hresult
    /\ ~hraised

(***************************************************************************)
(* BIG INTEGERS AND BUFFER ACCESS                                          *)
(*                                                                         *)
(* A bigint is a sign and a magnitude of five 16-bit limbs, least          *)
(* significant first: four limbs hold every 64-bit value, the fifth is     *)
(* non-zero only for values that do not fit 64 bits.  A Buffer is a        *)
(* sequence of bytes; the byte at offset o is element o + 1.               *)
(***************************************************************************)
Limb == 256 * 256

Big(neg, l1, l2, l3, l4, l5) == [neg |-> neg, mag |-> <<l1, l2, l3, l4, l5>>]

\* 2^64 - m for a four-limb magnitude m # 0: complement every limb and add one.
TwosComplement(m) ==
    LET s1 == (Limb - 1 - m[1]) + 1
        s2 == (Limb - 1 - m[2]) + (s1 \div Limb)
        s3 == (Limb - 1 - m[3]) + (s2 \div Limb)
        s4 == (Limb - 1 - m[4]) + (s3 \div Limb)
    IN <<s1 % Limb, s2 % Limb, s3 % Limb, s4 % Limb, 0>>

\* Buffer.readUInt8(offset)
readUInt8(buf, offset) == buf[offset + 1]

\* Buffer.readBigUInt64LE(offset): eight bytes, least significant first.
readBigUInt64LE(buf, offset) ==
    [neg |-> FALSE,
     mag |-> [i \in 1..5 |->
                 IF i = 5 THEN 0
                 ELSE buf[offset + 2 * i - 1] + 256 * buf[offset + 2 * i]]]

\* Buffer.readBigInt64LE(offset): the same bytes as a two's-complement value.
readBigInt64LE(buf, offset) ==
    LET u == readBigUInt64LE(buf, offset)
    IN IF u.mag[4] >= Limb \div 2
       THEN [neg |-> TRUE, mag |-> TwosComplement(u.mag)]
       ELSE u

\* The integer reads throw a RangeError when offset + width exceeds the length.
CanRead(buf, offset, width) == offset + width <= Len(buf)

\* Buffer.subarray(start, end): both ends are clamped to the length.
subarray(buf, start, end) ==
    LET e == IF end > Len(buf) THEN Len(buf) ELSE end
    IN SubSeq(buf, start + 1, e)

\* new PublicKey(bytes): the bytes as a big-endian number of 32 bytes.
PublicKeyFromBytes(bytes) == Zeros(32 - Len(bytes)) \o bytes

(***************************************************************************)
(* ORACLE ACCOUNT DECODER                                                  *)
(***************************************************************************)
PRICE_ORACLE_SIZE == 128

\* 0x4c43524f4c435250n
ORACLE_MAGIC == Big(FALSE, 21072, 19523, 21071, 19523, 0)

NullResult(readEnd) == [kind |-> "null", readEnd |-> readEnd]

ThrewResult(readEnd) == [kind |-> "threw", readEnd |-> readEnd]

\* A variant of the length check that only covers the magic.
TooShort_MagicOnly(buf) == Len(buf) < 8

\* data.length < PRICE_ORACLE_SIZE
TooShort(buf) == Len(buf) < PRICE_ORACLE_SIZE

\* A variant of the magic check that compares the low 32 bits only.
MagicMatches_Low32(buf) ==
    /\ readBigUInt64LE(buf, 0).mag[1] = ORACLE_MAGIC.mag[1]
    /\ readBigUInt64LE(buf, 0).mag[2] = ORACLE_MAGIC.mag[2]

\* magic === ORACLE_MAGIC, magic being data.readBigUInt64LE(0)
MagicMatches(buf) == readBigUInt64LE(buf, 0) = ORACLE_MAGIC

\* The field reads of parseOracleData and the record it returns.
DecodeFields(buf) ==
    IF ~CanRead(buf, 8, 1) THEN ThrewResult(9)
    ELSE IF ~CanRead(buf, 9, 1) THEN ThrewResult(10)
    ELSE IF ~CanRead(buf, 80, 8) THEN ThrewResult(88)
    ELSE IF ~CanRead(buf, 88, 8) THEN ThrewResult(96)
    ELSE IF ~CanRead(buf, 96, 8) THEN ThrewResult(104)
    ELSE [kind |-> "PriceOracle",
          readEnd |-> 104,
          magic |-> readBigUInt64LE(buf, 0),
          version |-> readUInt8(buf, 8),
          bump |-> readUInt8(buf, 9),
          authority |-> PublicKeyFromBytes(subarray(buf, 16, 48)),
          instrument |-> PublicKeyFromBytes(subarray(buf, 48, 80)),
          price |-> readBigInt64LE(buf, 80),
          timestamp |-> readBigInt64LE(buf, 88),
          confidence |-> readBigInt64LE(buf, 96)]

\* parseOracleData(data): PriceOracle | null
parseOracleData(buf) ==
    IF TooShort(buf) THEN NullResult(0)
    ELSE IF ~CanRead(buf, 0, 8) THEN ThrewResult(8)
    ELSE IF ~MagicMatches(buf) THEN NullResult(8)
    ELSE DecodeFields(buf)

(***************************************************************************)
(* Writing integers.  A buffer under construction is [threw, buf]: once a  *)
(* write has thrown, the builder is left and nothing more is written.      *)
(***************************************************************************)
\* Buffer.alloc(size): zero-filled
alloc(size) == [threw |-> FALSE, buf |-> Zeros(size)]

WriteAt(buf, bytes, offset) ==
    [i \in 1..Len(buf) |->
        IF i > offset /\ i <= offset + Len(bytes) THEN bytes[i - offset] ELSE buf[i]]

LimbBytes(m) ==
    <<m[1] % 256, m[1] \div 256, m[2] % 256, m[2] \div 256,
      m[3] % 256, m[3] \div 256, m[4] % 256, m[4] \div 256>>

\* 0 <= value <= 2^64 - 1
UInt64InRange(value) == ~value.neg /\ value.mag[5] = 0

\* -2^63 <= value <= 2^63 - 1
Int64InRange(value) ==
    /\ value.mag[5] = 0
    /\ \/ value.mag[4] < Limb \div 2
       \/ /\ value.neg
          /\ value.mag = <<0, 0, 0, Limb \div 2, 0>>

\* The eight bytes of value & (2^64 - 1), least significant first.
Int64Bytes(value) ==
    IF value.neg THEN LimbBytes(TwosComplement(value.mag)) ELSE LimbBytes(value.mag)

\* Buffer.writeUInt8(value, offset): RangeError outside 0..255 or the buffer.
writeUInt8(b, value, offset) ==
    IF b.threw \/ value < 0 \/ value > 255 \/ ~CanRead(b.buf, offset, 1)
    THEN [threw |-> TRUE, buf |-> b.buf]
    ELSE [threw |-> FALSE, buf |-> WriteAt(b.buf, <<value>>, offset)]

\* Buffer.writeBigUInt64LE(value, offset): RangeError outside 0..2^64-1.
writeBigUInt64LE(b, value, offset) ==
    IF b.threw \/ ~UInt64InRange(value) \/ ~CanRead(b.buf, offset, 8)
    THEN [threw |-> TRUE, buf |-> b.buf]
    ELSE [threw |-> FALSE, buf |-> WriteAt(b.buf, LimbBytes(value.mag), offset)]

\* Buffer.writeBigInt64LE(value, offset): RangeError outside -2^63..2^63-1.
writeBigInt64LE(b, value, offset) ==
    IF b.threw \/ ~Int64InRange(value) \/ ~CanRead(b.buf, offset, 8)
    THEN [threw |-> TRUE, buf |-> b.buf]
    ELSE [threw |-> FALSE, buf |-> WriteAt(b.buf, Int64Bytes(value), offset)]

\* 0 <= value <= 2^32 - 1
UInt32InRange(value) ==
    ~value.neg /\ value.mag[3] = 0 /\ value.mag[4] = 0 /\ value.mag[5] = 0

\* The four bytes of a two-limb magnitude, least significant first.
UInt32Bytes(m) == <<m[1] % 256, m[1] \div 256, m[2] % 256, m[2] \div 256>>

\* Buffer.writeUInt32LE(value, offset): RangeError outside 0..2^32-1.
writeUInt32LE(b, value, offset) ==
    IF b.threw \/ ~UInt32InRange(value) \/ ~CanRead(b.buf, offset, 4)
    THEN [threw |-> TRUE, buf |-> b.buf]
    ELSE [threw |-> FALSE, buf |-> WriteAt(b.buf, UInt32Bytes(value.mag), offset)]

\* Buffer.readUInt32LE(offset), as a magnitude
readUInt32LE(buf, offset) ==
    Big(FALSE, buf[offset + 1] + 256 * buf[offset + 2],
               buf[offset + 3] + 256 * buf[offset + 4], 0, 0, 0)

\* A host that stores typed arrays most significant byte first.
Uint32ArrayBuffer_BigEndian(value) ==
    LET m == IF value.neg THEN TwosComplement(value.mag) ELSE value.mag
    IN <<m[2] \div 256, m[2] % 256, m[1] \div 256, m[1] % 256>>

\* new Uint32Array([value]).buffer: the element is value modulo 2^32 (ToUint32
\* never throws), stored in the byte order of the host.  The hosts the
\* SDK's hashing dependency accepts are little-endian.
Uint32ArrayBuffer(value) ==
    LET m == IF value.neg THEN TwosComplement(value.mag) ELSE value.mag
    IN UInt32Bytes(m)

(***************************************************************************)
(* The account bytes the decoder is given.  The oracle program lays a      *)
(* record out as magic (8), version (1), bump (1), padding (6), authority  *)
(* (32), instrument (32), price (8), timestamp (8), confidence (8) and     *)
(* padding to 128 bytes; anything may be stored at an address, so the      *)
(* inputs also hold records with one magic byte replaced, with any version *)
(* byte, and cut or extended to other lengths.                             *)
(***************************************************************************)
\* "PRCLORCL"
MagicBytes == <<80, 82, 67, 76, 79, 82, 67, 76>>

SamplePrices ==
    {Big(FALSE, 0, 0, 0, 0, 0),
     Big(FALSE, 29696, 42043, 11, 0, 0),     \* 50_000_000_000
     Big(TRUE, 1, 0, 0, 0, 0)}               \* -1

SampleVersions == {0, 1, 2, 255}

SampleLengths == {0, 7, 8, 9, 127, 128, 129}

\* The magic: intact, all zero, or with the byte at one position replaced.
SampleMagics ==
    {MagicBytes, Zeros(8)} \cup
    UNION {{[MagicBytes EXCEPT ![pos] = v] :
                v \in {0, 255, (MagicBytes[pos] + 1) % 256}} : pos \in 1..8}

OracleBytes(magic, version, price) ==
    magic \o <<version, 254>> \o Zeros(6) \o Key(1) \o Key(2)
          \o Int64Bytes(price)
          \o Int64Bytes(Big(FALSE, 1, 2, 3, 4, 0))
          \o Int64Bytes(Big(FALSE, 1000, 0, 0, 0, 0))
          \o Zeros(24)

Resize(buf, n) ==
    [i \in 1..n |-> IF i <= Len(buf) THEN buf[i] ELSE 0]

SampleBuffers ==
    {Resize(OracleBytes(m, v, p), n) :
        m \in SampleMagics, v \in SampleVersions, p \in SamplePrices,
        n \in SampleLengths}

\* parseOracleData called on a buffer.
ParseOracleData(buf) ==
    /\ dpc = "idle"
    /\ dpc' = "parsed"
    /\ data' = buf
    /\ parsed' = parseOracleData(buf)
    /\ UNCHANGED <<accounts, oracles, authVars, consoleLog, bldVars, pdaVars, uiVars, appVars>>

\* A variant of fetchOracle without the check for a missing account.
fetchOracle_NoNullCheck(accountInfo, transportOk) ==
    IF ~transportOk THEN ThrewResult(0)
    ELSE IF accountInfo.found THEN parseOracleData(accountInfo.data)
    ELSE ThrewResult(0)

\* fetchOracle: getAccountInfo rejects when the transport fails (nothing
\* catches it); a missing account is null; else the data is parsed.
fetchOracle(accountInfo, transportOk) ==
    IF ~transportOk THEN ThrewResult(0)
    ELSE IF ~accountInfo.found THEN NullResult(0)
    ELSE parseOracleData(accountInfo.data)

AccountInfos ==
    {[found |-> FALSE, data |-> <<>>]} \cup
    {[found |-> TRUE, data |-> b] : b \in SampleBuffers}

\* fetchOracle called for an address holding accountInfo.
FetchOracle(accountInfo, transportOk) ==
    /\ dpc = "idle"
    /\ dpc' = IF transportOk THEN "fetched" ELSE "fetchFailed"
    /\ data' = accountInfo.data
    /\ parsed' = fetchOracle(accountInfo, transportOk)
    /\ UNCHANGED <<accounts, oracles, authVars, consoleLog, bldVars, pdaVars, uiVars, appVars>>

(***************************************************************************)
(* fetchAllOracles: one getProgramAccounts call with a dataSize filter,    *)
(* then every returned account is parsed and the parsed ones are kept.     *)
(***************************************************************************)
\* What the oracle program's accounts may hold.
PoolData ==
    {OracleBytes(MagicBytes, 0, Big(FALSE, 29696, 42043, 11, 0, 0)),
     OracleBytes(MagicBytes, 255, Big(TRUE, 1, 0, 0, 0, 0)),
     OracleBytes([MagicBytes EXCEPT ![3] = 0], 0, Big(FALSE, 0, 0, 0, 0, 0)),
     Resize(OracleBytes(MagicBytes, 0, Big(FALSE, 0, 0, 0, 0, 0)), 127)}

\* The program's accounts: the account at address Key(i) holds the i-th data.
ProgramAccountLists ==
    UNION {{[i \in 1..n |-> [pubkey |-> Key(i), account |-> [data |-> f[i]]]] :
               f \in [1..n -> PoolData]} : n \in 0..MaxBatch}

\* connection.getProgramAccounts(programId, {filters: [{dataSize: size}]})
getProgramAccounts(all, size) ==
    SelectSeq(all, LAMBDA a : Len(a.account.data) = size)

RECURSIVE OracleLoop_StopAtBad(_, _)
\* A variant of the loop that leaves at the first account that does not parse.
OracleLoop_StopAtBad(accts, acc) ==
    IF accts = <<>> THEN [threw |-> FALSE, oracles |-> acc]
    ELSE LET p == parseOracleData(Head(accts).account.data)
         IN IF p.kind = "threw" THEN [threw |-> TRUE, oracles |-> acc]
            ELSE IF p.kind = "PriceOracle"
            THEN OracleLoop_StopAtBad(Tail(accts),
                     Append(acc, [address |-> Head(accts).pubkey, data |-> p]))
            ELSE [threw |-> FALSE, oracles |-> acc]

RECURSIVE OracleLoop(_, _)
\* for (const {pubkey, account} of accounts) { parse; if (parsed) push }
OracleLoop(accts, acc) ==
    IF accts = <<>> THEN [threw |-> FALSE, oracles |-> acc]
    ELSE LET p == parseOracleData(Head(accts).account.data)
         IN IF p.kind = "threw" THEN [threw |-> TRUE, oracles |-> acc]
            ELSE IF p.kind = "PriceOracle"
            THEN OracleLoop(Tail(accts),
                     Append(acc, [address |-> Head(accts).pubkey, data |-> p]))
            ELSE OracleLoop(Tail(accts), acc)

\* fetchAllOracles up to its await: the request is sent.
FetchAllOracles_Call ==
    /\ dpc = "idle"
    /\ dpc' = "awaitAccounts"
    /\ UNCHANGED <<data, parsed, accounts, oracles, authVars, consoleLog, bldVars, pdaVars, uiVars, appVars>>

\* The accounts arrive; the loop runs and the array is returned.
FetchAllOracles_Resume(all) ==
    /\ dpc = "awaitAccounts"
    /\ LET got == getProgramAccounts(all, PRICE_ORACLE_SIZE)
           r == OracleLoop(got, <<>>)
       IN /\ accounts' = got
          /\ oracles' = r.oracles
          /\ dpc' = IF r.threw THEN "batchThrew" ELSE "batchDone"
    /\ UNCHANGED <<data, parsed, authVars, consoleLog, bldVars, pdaVars, uiVars, appVars>>

\* The request fails in transport: fetchAllOracles rejects.
FetchAllOracles_Fail ==
    /\ dpc = "awaitAccounts"
    /\ dpc' = "batchFailed"
    /\ UNCHANGED <<data, parsed, accounts, oracles, authVars, consoleLog, bldVars, pdaVars, uiVars, appVars>>

InitDecode ==
    /\ govAccount = NoAccount
    /\ AuthIdle
    /\ consoleLog = <<>>
    /\ DecIdle
    /\ BldIdle
    /\ PdaIdle
    /\ UiIdle
    /\ AppIdle

NextDecode ==
    \/ \E buf \in SampleBuffers : ParseOracleData(buf)
    \/ \E info \in AccountInfos, ok \in BOOLEAN : FetchOracle(info, ok)
    \/ FetchAllOracles_Call
    \/ \E all \in ProgramAccountLists : FetchAllOracles_Resume(all)
    \/ FetchAllOracles_Fail

SpecDecode == InitDecode /\ [][NextDecode]_vars

(***************************************************************************)
(* Claims about the decoder (under SpecDecode).                            *)
(***************************************************************************)
\* parseOracleData has run on data (directly or inside fetchOracle).
Decoded == dpc \in {"parsed", "fetched"}

PriceOracleFields ==
    {"kind", "readEnd", "magic", "version", "bump", "authority", "instrument",
     "price", "timestamp", "confidence"}

\* C3: a buffer of at least 128 bytes whose first 8 bytes differ from
\* "PRCLORCL" in at least one byte decodes to the invalid result, never to a
\* record.
C3_BadMagicRejected ==
    (Decoded /\ Len(data) >= PRICE_ORACLE_SIZE /\ SubSeq(data, 1, 8) # MagicBytes)
        => /\ parsed.kind = "null"
           /\ DOMAIN parsed \cap PriceOracleFields = {"kind", "readEnd"}

\* Only the last magic byte is off (0x4d for 0x4c) and the record is refused.
C3_Witness ==
    /\ dpc = "parsed"
    /\ Len(data) = PRICE_ORACLE_SIZE
    /\ SubSeq(data, 1, 7) = SubSeq(MagicBytes, 1, 7)
    /\ data[8] = 77
    /\ parsed.kind = "null"

\* The versions a build would accept.  The source names none; the verdict on
\* C4 is the same for every set that leaves some byte value out.
SupportedVersions == {0}

\* C4: with at least 128 bytes and the right magic, the version byte at
\* offset 8 is checked before any other field is read, and a version this
\* build does not support gives the invalid result, not a record.
C4_UnsupportedVersionRejected ==
    (/\ Decoded
     /\ Len(data) >= PRICE_ORACLE_SIZE
     /\ SubSeq(data, 1, 8) = MagicBytes
     /\ data[9] \notin SupportedVersions)
        => /\ parsed.kind = "null"
           /\ parsed.readEnd <= 9

InvalidReasons == {"TooShort", "BadMagic", "UnsupportedVersion", "FieldOutOfRange"}

AcceptedBytes(buf) ==
    /\ Len(buf) >= PRICE_ORACLE_SIZE
    /\ SubSeq(buf, 1, 8) = MagicBytes

AcceptedIdx == {i \in 1..Len(accounts) : AcceptedBytes(accounts[i].account.data)}

\* Every accepted account, in input order, with its own address and fields.
BatchIsolated ==
    /\ dpc # "batchThrew"
    /\ dpc = "batchDone"
        => /\ Len(oracles) = Cardinality(AcceptedIdx)
           /\ \A i \in AcceptedIdx :
                 LET k == Cardinality({j \in AcceptedIdx : j <= i})
                     bytes == accounts[i].account.data
                 IN /\ oracles[k].address = accounts[i].pubkey
                    /\ oracles[k].data.kind = "PriceOracle"
                    /\ oracles[k].data.version = bytes[9]
                    /\ oracles[k].data.price = readBigInt64LE(bytes, 80)
                    /\ oracles[k].data.authority = SubSeq(bytes, 17, 48)

\* Something about a refused account reaches the caller: an entry of the
\* returned array or a console line.
ErrorReported ==
    \/ consoleLog # <<>>
    \/ \E k \in 1..Len(oracles) : oracles[k].data.kind # "PriceOracle"

\* C7 as stated: the batch decodes each pair on its own, keeps exactly the
\* valid ones in order, and the error for a bad record is observable.
C7_IsolatedAndObservable ==
    /\ BatchIsolated
    /\ (dpc = "batchDone" /\ AcceptedIdx # 1..Len(accounts)) => ErrorReported

\* C7 amended: the batch decodes each pair on its own and returns exactly the
\* pairs parseOracleData accepts, in input order, each with its own address
\* and record; a refused record is dropped without any report.
C7_IsolatedAndSilent ==
    /\ BatchIsolated
    /\ dpc = "batchDone" => ~ErrorReported

\* Three records, the second with a corrupted magic: the first and the third
\* are returned.
C7_Witness ==
    /\ dpc = "batchDone"
    /\ Len(accounts) = 3
    /\ AcceptedIdx = {1, 3}
    /\ Len(oracles) = 2
    /\ oracles[1].address = Key(1)
    /\ oracles[2].address = Key(3)

(***************************************************************************)
(* INSTRUCTION BUILDERS                                                    *)
(***************************************************************************)
\* A variant of the enumeration that starts at the first portfolio operation.
RouterInstruction_Renumbered ==
    [InitializePortfolio |-> 0, InitializeVault |-> 1, Deposit |-> 2,
     Withdraw |-> 3, ExecuteCrossSlab |-> 4, LiquidateUser |-> 5,
     BurnLpShares |-> 6, CancelLpOrders |-> 7, RouterReserve |-> 8,
     RouterRelease |-> 9, RouterLiquidity |-> 10, TopUpInsurance |-> 11,
     WithdrawInsurance |-> 12, GlobalHaircut |-> 13, UpdateRiskParams |-> 14]

\* enum RouterInstruction (sdk/constants)
\* RouterRelease given the value of RouterReserve
RouterInstruction_Shared ==
    [Initialize |-> 0, InitializePortfolio |-> 1, InitializeVault |-> 2,
     Deposit |-> 3, Withdraw |-> 4, ExecuteCrossSlab |-> 5, LiquidateUser |-> 6,
     BurnLpShares |-> 7, CancelLpOrders |-> 8, RouterReserve |-> 9,
     RouterRelease |-> 9, RouterLiquidity |-> 11, TopUpInsurance |-> 12,
     WithdrawInsurance |-> 13, GlobalHaircut |-> 14, UpdateRiskParams |-> 15]

RouterInstruction ==
    [Initialize |-> 0, InitializePortfolio |-> 1, InitializeVault |-> 2,
     Deposit |-> 3, Withdraw |-> 4, ExecuteCrossSlab |-> 5, LiquidateUser |-> 6,
     BurnLpShares |-> 7, CancelLpOrders |-> 8, RouterReserve |-> 9,
     RouterRelease |-> 10, RouterLiquidity |-> 11, TopUpInsurance |-> 12,
     WithdrawInsurance |-> 13, GlobalHaircut |-> 14, UpdateRiskParams |-> 15]

\* enum OracleInstruction
OracleInstruction == [Initialize |-> 0, UpdatePrice |-> 1]

\* SystemProgram.programId, the all-zero key
SystemProgramId == Zeros(32)

\* The deployed program the instructions are built for.
ProgramIds == {Key(200)}

(***************************************************************************)
(* Program derived addresses.  A seed is a buffer of bytes or the 32 bytes *)
(* of a key; an address is kept as what it is hashed from.  Whether the    *)
(* hash of (seeds, nonce, program) is a point of the curve is a fixed but  *)
(* unknown property of the hash: offCurve holds, for each class of seed    *)
(* lists, the nonces whose hash is off the curve.                          *)
(***************************************************************************)
\* Buffer.from(bytes)
BufferFrom(bytes) == [kind |-> "bytes", val |-> bytes]

\* PublicKey.toBuffer()
toBuffer(key) == [kind |-> "key", val |-> key]

VAULT_SEED == BufferFrom(<<118, 97, 117, 108, 116>>)
ESCROW_SEED == BufferFrom(<<101, 115, 99, 114, 111, 119>>)
CAP_SEED == BufferFrom(<<99, 97, 112>>)
PORTFOLIO_SEED == BufferFrom(<<112, 111, 114, 116, 102, 111, 108, 105, 111>>)
REGISTRY_SEED == BufferFrom(<<114, 101, 103, 105, 115, 116, 114, 121>>)
AUTHORITY_SEED == BufferFrom(<<97, 117, 116, 104, 111, 114, 105, 116, 121>>)
ROUTER_SIGNER_SEED == BufferFrom(<<114, 111, 117, 116, 101, 114, 95, 115, 105, 103, 110, 101, 114>>)
INSURANCE_VAULT_SEED == BufferFrom(<<105, 110, 115, 117, 114, 97, 110, 99, 101, 95, 118, 97, 117, 108, 116>>)
LP_SEAT_SEED == BufferFrom(<<108, 112, 95, 115, 101, 97, 116>>)
VENUE_PNL_SEED == BufferFrom(<<118, 101, 110, 117, 101, 95, 112, 110, 108>>)

SeedLength(seed) == IF seed.kind = "bytes" THEN Len(seed.val) ELSE 32

\* The class of a seed list the hash is sampled on.
SeedBucket(seeds) == (Len(seeds) + SeedLength(seeds[1])) % NumBuckets

NoAddress == [threw |-> "Error", address |-> NoKey]

\* PublicKey.createProgramAddressSync(seedsWithNonce, programId): TypeError
\* for a seed longer than 32 bytes, Error when the hash is on the curve.
createProgramAddressSync(seedsWithNonce, programId) ==
    LET n == Len(seedsWithNonce)
        seeds == SubSeq(seedsWithNonce, 1, n - 1)
        nonce == seedsWithNonce[n].val[1]
    IN IF \E i \in 1..n : SeedLength(seedsWithNonce[i]) > 32
       THEN [threw |-> "TypeError", address |-> NoKey]
       ELSE IF nonce \in offCurve[SeedBucket(seedsWithNonce)]
       THEN [threw |-> "no",
             address |-> [derived |-> "programAddress", seeds |-> seeds,
                          nonce |-> nonce, owner |-> programId]]
       ELSE NoAddress

\* What a derivation gives: { address, bump }, or the exception thrown;
\* attempts counts the hashes computed for the seed list seeds.
PdaResult(threw, address, bump, attempts, seeds) ==
    [threw |-> threw, address |-> address, bump |-> bump, attempts |-> attempts,
     seeds |-> seeds]

\* One pass of the loop body: the candidate for this nonce.
Candidate(seeds, programId, nonce) ==
    createProgramAddressSync(Append(seeds, BufferFrom(<<nonce>>)), programId)

\* The lowest nonce of lo..hi whose candidate is off the curve, 0 when none.
RECURSIVE LowestOffCurve(_, _, _, _)
LowestOffCurve(seeds, programId, hi, lo) ==
    IF hi = lo
    THEN (IF Candidate(seeds, programId, hi).threw = "Error" THEN 0 ELSE hi)
    ELSE LET mid == (hi + lo + 1) \div 2
             lower == LowestOffCurve(seeds, programId, mid - 1, lo)
         IN IF lower # 0 THEN lower ELSE LowestOffCurve(seeds, programId, hi, mid)

\* A variant of the search that counts the nonce up from 1.
findProgramAddressSync_Ascending(seeds, programId) ==
    LET nonce == LowestOffCurve(seeds, programId, 255, 1)
    IN IF Candidate(seeds, programId, 1).threw = "TypeError"
       THEN PdaResult("TypeError", NoKey, 0, 1, seeds)
       ELSE IF nonce = 0 THEN PdaResult("Error", NoKey, 0, 255, seeds)
       ELSE PdaResult("no", Candidate(seeds, programId, nonce).address, nonce, nonce, seeds)

\* The loop of PublicKey.findProgramAddressSync (@solana/web3.js):
\*   let nonce = 255;
\*   while (nonce != 0) {
\*     try { address = createProgramAddressSync(seeds.concat([nonce]), programId) }
\*     catch (err) { if (err instanceof TypeError) throw err; nonce--; continue }
\*     return [address, nonce] }
\*   throw new Error('Unable to find a viable program address nonce')
\* SearchDown gives the nonce the loop returns with when it starts at hi and
\* would stop before lo - 1 (0 when it falls through): the passes hi, hi - 1,
\* ..., lo in this order, taken as two runs of passes one after the other so
\* that the evaluation stays shallow.
RECURSIVE SearchDown(_, _, _, _)
SearchDown(seeds, programId, hi, lo) ==
    IF hi = lo
    THEN (IF Candidate(seeds, programId, hi).threw = "Error" THEN 0 ELSE hi)
    ELSE LET mid == (hi + lo + 1) \div 2
             first == SearchDown(seeds, programId, hi, mid)
         IN IF first # 0 THEN first ELSE SearchDown(seeds, programId, mid - 1, lo)

\* A variant of the search that resumes at the nonce the previous search
\* ended with.
findProgramAddressSync_Resuming(seeds, programId) ==
    LET start == IF dlast.result.threw = "no" /\ "bump" \in DOMAIN dlast.result
                 THEN dlast.result.bump ELSE 255
        nonce == SearchDown(seeds, programId, start, 1)
    IN IF Candidate(seeds, programId, 255).threw = "TypeError"
       THEN PdaResult("TypeError", NoKey, 0, 1, seeds)
       ELSE IF nonce = 0 THEN PdaResult("Error", NoKey, 0, 255, seeds)
       ELSE PdaResult("no", Candidate(seeds, programId, nonce).address, nonce, 256 - nonce,
                      seeds)

\* PublicKey.findProgramAddressSync(seeds, programId); a TypeError (a seed
\* too long) is thrown by the first pass, whatever the nonce.
findProgramAddressSync(seeds, programId) ==
    LET nonce == SearchDown(seeds, programId, 255, 1)
    IN IF Candidate(seeds, programId, 255).threw = "TypeError"
       THEN PdaResult("TypeError", NoKey, 0, 1, seeds)
       ELSE IF nonce = 0 THEN PdaResult("Error", NoKey, 0, 255, seeds)
       ELSE PdaResult("no", Candidate(seeds, programId, nonce).address, nonce, 256 - nonce,
                      seeds)

\* deriveAuthorityPda(programId)
deriveAuthorityPda(programId) == findProgramAddressSync(<<AUTHORITY_SEED>>, programId)

\* deriveRouterSignerPda(programId)
deriveRouterSignerPda(programId) == findProgramAddressSync(<<ROUTER_SIGNER_SEED>>, programId)

\* deriveInsuranceVaultPda(programId)
deriveInsuranceVaultPda(programId) == findProgramAddressSync(<<INSURANCE_VAULT_SEED>>, programId)

\* deriveVaultPda(mint, programId)
deriveVaultPda(mint, programId) == findProgramAddressSync(<<VAULT_SEED, toBuffer(mint)>>, programId)

\* deriveEscrowPda(user, slab, mint, programId)
deriveEscrowPda(user, slab, mint, programId) ==
    findProgramAddressSync(<<ESCROW_SEED, toBuffer(user), toBuffer(slab), toBuffer(mint)>>,
                           programId)

\* deriveCapPda(user, slab, mint, nonce, programId): the nonce is written as
\* a u64 first, which throws when it does not fit.
deriveCapPda(user, slab, mint, nonce, programId) ==
    LET nonceBuffer == writeBigUInt64LE(alloc(8), nonce, 0)
    IN IF nonceBuffer.threw THEN PdaResult("RangeError", NoKey, 0, 0, <<>>)
       ELSE findProgramAddressSync(
                <<CAP_SEED, toBuffer(user), toBuffer(slab), toBuffer(mint),
                  BufferFrom(nonceBuffer.buf)>>, programId)

\* derivePortfolioPda(user, programId)
derivePortfolioPda(user, programId) ==
    findProgramAddressSync(<<PORTFOLIO_SEED, toBuffer(user)>>, programId)

\* deriveRegistryPda(programId)
deriveRegistryPda(programId) == findProgramAddressSync(<<REGISTRY_SEED>>, programId)

\* deriveLpSeatPda(routerId, matcherState, portfolio, contextId, programId):
\* the context id is written as a u32 first, which throws when it does not fit.
\* the router and the matcher seed in the opposite order
deriveLpSeatPda_MatcherFirst(routerId, matcherState, portfolio, contextId, programId) ==
    LET contextIdBuffer == writeUInt32LE(alloc(4), contextId, 0)
    IN IF contextIdBuffer.threw THEN PdaResult("RangeError", NoKey, 0, 0, <<>>)
       ELSE findProgramAddressSync(
                <<LP_SEAT_SEED, toBuffer(matcherState), toBuffer(routerId),
                  toBuffer(portfolio), BufferFrom(contextIdBuffer.buf)>>, programId)

deriveLpSeatPda(routerId, matcherState, portfolio, contextId, programId) ==
    LET contextIdBuffer == writeUInt32LE(alloc(4), contextId, 0)
    IN IF contextIdBuffer.threw THEN PdaResult("RangeError", NoKey, 0, 0, <<>>)
       ELSE findProgramAddressSync(
                <<LP_SEAT_SEED, toBuffer(routerId), toBuffer(matcherState),
                  toBuffer(portfolio), BufferFrom(contextIdBuffer.buf)>>, programId)

\* deriveVenuePnlPda(routerId, matcherState, programId)
deriveVenuePnlPda(routerId, matcherState, programId) ==
    findProgramAddressSync(<<VENUE_PNL_SEED, toBuffer(routerId), toBuffer(matcherState)>>,
                           programId)

\* PublicKey.createWithSeed(base, seed, programId): a hash of the three, kept
\* as the triple it is computed from.
createWithSeed(base, seed, programId) ==
    [derived |-> "createWithSeed", base |-> base, seed |-> seed, owner |-> programId]

\* A variant of createPortfolioAddress that looks at the ledger first and
\* derives under another tag when an account is stored there.
createPortfolioAddress_Lookup(user, programId) ==
    IF govAccount.kind = "absent"
    THEN createWithSeed(user, "portfolio", programId)
    ELSE createWithSeed(user, "portfolio" \o govAccount.kind, programId)

\* A variant of createPortfolioAddress that returns the address of the
\* bump-searched portfolio PDA.
createPortfolioAddress_Pda(user, programId) == derivePortfolioPda(user, programId).address

\* createPortfolioAddress(user, programId)
createPortfolioAddress(user, programId) ==
    createWithSeed(user, "portfolio", programId)

\* every account marked as signer
AccountMeta_AllSigners(pubkey, isSigner, isWritable) ==
    [pubkey |-> pubkey, isSigner |-> TRUE, isWritable |-> isWritable]

AccountMeta(pubkey, isSigner, isWritable) ==
    [pubkey |-> pubkey, isSigner |-> isSigner, isWritable |-> isWritable]

TransactionInstruction(programId, keys, payload) ==
    [kind |-> "instruction", programId |-> programId, keys |-> keys, data |-> payload]

BuilderThrew == [kind |-> "threw"]

\* createInitializePortfolioInstructions: [create account, initialize]
createInitializePortfolioInstructions(user, programId, portfolioSize, rentLamports) ==
    LET portfolioAddress == createPortfolioAddress(user, programId)
        createAccountIx ==
            [kind |-> "system", op |-> "createAccountWithSeed",
             fromPubkey |-> user, newAccountPubkey |-> portfolioAddress,
             basePubkey |-> user, seed |-> "portfolio",
             lamports |-> rentLamports, space |-> portfolioSize,
             programId |-> programId]
        d1 == writeUInt8(alloc(33), RouterInstruction.InitializePortfolio, 0)
        d2 == [threw |-> d1.threw, buf |-> WriteAt(d1.buf, user, 1)]
    IN IF d2.threw THEN BuilderThrew
       ELSE [kind |-> "instructions",
             list |-> <<createAccountIx,
                        TransactionInstruction(programId,
                            <<AccountMeta(portfolioAddress, FALSE, TRUE),
                              AccountMeta(user, TRUE, TRUE)>>,
                            d2.buf)>>]

\* A variant of createDepositInstruction that writes the amount as an i64.
createDepositInstruction_Signed(user, params, programId) ==
    LET portfolioAddress == createPortfolioAddress(user, programId)
        d1 == writeUInt8(alloc(9), RouterInstruction.Deposit, 0)
        d2 == writeBigInt64LE(d1, params.amount, 1)
    IN IF d2.threw THEN BuilderThrew
       ELSE TransactionInstruction(programId,
                <<AccountMeta(portfolioAddress, FALSE, TRUE),
                  AccountMeta(user, TRUE, TRUE),
                  AccountMeta(SystemProgramId, FALSE, FALSE)>>,
                d2.buf)

\* createDepositInstruction: [discriminator (1), amount (8)]
createDepositInstruction(user, params, programId) ==
    LET portfolioAddress == createPortfolioAddress(user, programId)
        d1 == writeUInt8(alloc(9), RouterInstruction.Deposit, 0)
        d2 == writeBigUInt64LE(d1, params.amount, 1)
    IN IF d2.threw THEN BuilderThrew
       ELSE TransactionInstruction(programId,
                <<AccountMeta(portfolioAddress, FALSE, TRUE),
                  AccountMeta(user, TRUE, TRUE),
                  AccountMeta(SystemProgramId, FALSE, FALSE)>>,
                d2.buf)

\* createWithdrawInstruction: [discriminator (1), amount (8)]
createWithdrawInstruction(user, params, programId) ==
    LET portfolioAddress == createPortfolioAddress(user, programId)
        d1 == writeUInt8(alloc(9), RouterInstruction.Withdraw, 0)
        d2 == writeBigUInt64LE(d1, params.amount, 1)
    IN IF d2.threw THEN BuilderThrew
       ELSE TransactionInstruction(programId,
                <<AccountMeta(portfolioAddress, FALSE, TRUE),
                  AccountMeta(user, TRUE, TRUE),
                  AccountMeta(SystemProgramId, FALSE, FALSE)>>,
                d2.buf)

\* new PublicKey('So11111111111111111111111111111111111111112')
SolMint == Key(250)

RECEIPT_SEED == BufferFrom(<<114, 101, 99, 101, 105, 112, 116>>)

\* createExecuteCrossSlabInstruction: discriminator (1) + num_splits (1) +
\* side (1) + qty (8, i64) + limit_px (8, i64)
createExecuteCrossSlabInstruction(user, slabPubkey, oraclePubkey, params, programId) ==
    LET portfolioAddress == createPortfolioAddress(user, programId)
        vault == deriveVaultPda(SolMint, programId)
        registry == deriveRegistryPda(programId)
        authority == deriveAuthorityPda(programId)
        receipt == findProgramAddressSync(
                       <<RECEIPT_SEED, toBuffer(portfolioAddress), toBuffer(slabPubkey)>>,
                       programId)
        numSplits == 1
        sideByte == IF params.side = 0 THEN 0 ELSE 1
        d1 == writeUInt8(alloc(1 + 1 + 17), RouterInstruction.ExecuteCrossSlab, 0)
        d2 == writeUInt8(d1, numSplits, 1)
        d3 == writeUInt8(d2, sideByte, 2)
        d4 == writeBigInt64LE(d3, params.size, 3)
        d5 == writeBigInt64LE(d4, params.price, 11)
    IN IF \/ vault.threw # "no" \/ registry.threw # "no"
          \/ authority.threw # "no" \/ receipt.threw # "no"
          \/ d5.threw
       THEN BuilderThrew
       ELSE TransactionInstruction(programId,
                <<AccountMeta(portfolioAddress, FALSE, TRUE),
                  AccountMeta(user, TRUE, FALSE),
                  AccountMeta(vault.address, FALSE, TRUE),
                  AccountMeta(registry.address, FALSE, TRUE),
                  AccountMeta(authority.address, FALSE, FALSE),
                  AccountMeta(SystemProgramId, FALSE, FALSE),
                  AccountMeta(oraclePubkey, FALSE, FALSE),
                  AccountMeta(slabPubkey, FALSE, TRUE),
                  AccountMeta(receipt.address, FALSE, TRUE)>>,
                d5.buf)

\* The seed list both liquidity builders derive the LP seat from.
LpSeatSeeds(programId, matcherState, portfolioAddress, contextId) ==
    <<BufferFrom(<<108, 112, 95, 115, 101, 97, 116>>), toBuffer(programId),
      toBuffer(matcherState), toBuffer(portfolioAddress),
      BufferFrom(Uint32ArrayBuffer(contextId))>>

\* createRouterReserveInstruction: [discriminator (1), amount (8), context_id (4)]
createRouterReserveInstruction(user, matcherState, amount, contextId, programId) ==
    LET portfolioAddress == createPortfolioAddress(user, programId)
        lpSeat == findProgramAddressSync(
                      LpSeatSeeds(programId, matcherState, portfolioAddress, contextId),
                      programId)
        d1 == writeUInt8(alloc(13), RouterInstruction.RouterReserve, 0)
        d2 == writeBigUInt64LE(d1, amount, 1)
        d3 == writeUInt32LE(d2, contextId, 9)
    IN IF lpSeat.threw # "no" \/ d3.threw THEN BuilderThrew
       ELSE TransactionInstruction(programId,
                <<AccountMeta(portfolioAddress, FALSE, TRUE),
                  AccountMeta(user, TRUE, FALSE),
                  AccountMeta(matcherState, FALSE, FALSE),
                  AccountMeta(lpSeat.address, FALSE, TRUE),
                  AccountMeta(SystemProgramId, FALSE, FALSE)>>,
                d3.buf)

\* createRouterReleaseInstruction: [discriminator (1), context_id (4)]
createRouterReleaseInstruction(user, matcherState, contextId, programId) ==
    LET portfolioAddress == createPortfolioAddress(user, programId)
        lpSeat == findProgramAddressSync(
                      LpSeatSeeds(programId, matcherState, portfolioAddress, contextId),
                      programId)
        d1 == writeUInt8(alloc(5), RouterInstruction.RouterRelease, 0)
        d2 == writeUInt32LE(d1, contextId, 1)
    IN IF lpSeat.threw # "no" \/ d2.threw THEN BuilderThrew
       ELSE TransactionInstruction(programId,
                <<AccountMeta(portfolioAddress, FALSE, TRUE),
                  AccountMeta(user, TRUE, FALSE),
                  AccountMeta(matcherState, FALSE, FALSE),
                  AccountMeta(lpSeat.address, FALSE, TRUE)>>,
                d2.buf)

\* createLiquidateUserInstruction: [discriminator (1), target_user (32)]
createLiquidateUserInstruction(liquidator, targetUser, programId) ==
    LET liquidatorPortfolio == createPortfolioAddress(liquidator, programId)
        targetPortfolio == createPortfolioAddress(targetUser, programId)
        d1 == writeUInt8(alloc(33), RouterInstruction.LiquidateUser, 0)
        d2 == [threw |-> d1.threw, buf |-> WriteAt(d1.buf, targetUser, 1)]
    IN IF d2.threw THEN BuilderThrew
       ELSE TransactionInstruction(programId,
                <<AccountMeta(liquidatorPortfolio, FALSE, TRUE),
                  AccountMeta(liquidator, TRUE, FALSE),
                  AccountMeta(targetPortfolio, FALSE, TRUE),
                  AccountMeta(SystemProgramId, FALSE, FALSE)>>,
                d2.buf)

\* createInitializeOracleInstructions: [create account, initialize]
createInitializeOracleInstructions(oracleKeypair, authority, instrument, initialPrice, programId, rentLamports) ==
    LET createAccountIx ==
            [kind |-> "system", op |-> "createAccount",
             fromPubkey |-> authority, newAccountPubkey |-> oracleKeypair,
             lamports |-> rentLamports, space |-> PRICE_ORACLE_SIZE,
             programId |-> programId]
        bump == 0
        d1 == writeUInt8(alloc(10), OracleInstruction.Initialize, 0)
        d2 == writeBigInt64LE(d1, initialPrice, 1)
        d3 == writeUInt8(d2, bump, 9)
    IN IF d3.threw THEN BuilderThrew
       ELSE [kind |-> "instructions",
             list |-> <<createAccountIx,
                        TransactionInstruction(programId,
                            <<AccountMeta(oracleKeypair, FALSE, TRUE),
                              AccountMeta(authority, TRUE, FALSE),
                              AccountMeta(instrument, FALSE, FALSE)>>,
                            d3.buf)>>]

\* A variant of createUpdatePriceInstruction that writes both fields as u64.
createUpdatePriceInstruction_Unsigned(oracleAccount, authority, price, confidence, programId) ==
    LET d1 == writeUInt8(alloc(17), OracleInstruction.UpdatePrice, 0)
        d2 == writeBigUInt64LE(d1, price, 1)
        d3 == writeBigUInt64LE(d2, confidence, 9)
    IN IF d3.threw THEN BuilderThrew
       ELSE TransactionInstruction(programId,
                <<AccountMeta(oracleAccount, FALSE, TRUE),
                  AccountMeta(authority, TRUE, FALSE)>>,
                d3.buf)

\* createUpdatePriceInstruction: discriminator (1) + price (8) + confidence (8)
createUpdatePriceInstruction(oracleAccount, authority, price, confidence, programId) ==
    LET d1 == writeUInt8(alloc(17), OracleInstruction.UpdatePrice, 0)
        d2 == writeBigInt64LE(d1, price, 1)
        d3 == writeBigInt64LE(d2, confidence, 9)
    IN IF d3.threw THEN BuilderThrew
       ELSE TransactionInstruction(programId,
                <<AccountMeta(oracleAccount, FALSE, TRUE),
                  AccountMeta(authority, TRUE, FALSE)>>,
                d3.buf)

(***************************************************************************)
(* The values the builders are called with: bigints across and beyond the  *)
(* 64-bit ranges, built limb by limb.                                      *)
(***************************************************************************)
SampleMagnitudes ==
    {<<l1, l2, l3, l4, l5>> :
        l1 \in {0, 1, 255, 256, 51712, 65535},
        l2 \in {0, 15258, 65535},
        l3 \in {0, 65535},
        l4 \in {0, 32767, 32768, 65535},
        l5 \in {0, 1}}

SampleBigs ==
    {[neg |-> n, mag |-> m] : n \in BOOLEAN, m \in SampleMagnitudes}
        \ {[neg |-> TRUE, mag |-> <<0, 0, 0, 0, 0>>]}

SampleConfidences ==
    {Big(FALSE, 0, 0, 0, 0, 0),
     Big(FALSE, 1000, 0, 0, 0, 0),
     Big(FALSE, 65535, 65535, 65535, 32767, 0),      \* 2^63 - 1
     Big(FALSE, 0, 0, 0, 32768, 0),                  \* 2^63
     Big(TRUE, 1, 0, 0, 0, 0),                       \* -1
     Big(TRUE, 0, 0, 0, 32768, 0)}                   \* -2^63

BuilderIdle == bop = "none"

BuildInitializePortfolio(user, programId) ==
    /\ BuilderIdle
    /\ bop' = "initializePortfolio"
    /\ bargs' = [op |-> "initializePortfolio", user |-> user, programId |-> programId]
    /\ ix' = createInitializePortfolioInstructions(user, programId, 1024, 1000000)
    /\ UNCHANGED <<ix2, authVars, consoleLog, decVars, pdaVars, uiVars, appVars>>

BuildDeposit(user, amount, programId) ==
    /\ BuilderIdle
    /\ bop' = "deposit"
    /\ bargs' = [op |-> "deposit", user |-> user, amount |-> amount,
                 programId |-> programId]
    /\ ix' = createDepositInstruction(user, [amount |-> amount, mint |-> SolMint],
                                      programId)
    /\ UNCHANGED <<ix2, authVars, consoleLog, decVars, pdaVars, uiVars, appVars>>

BuildInitializeOracle(authority, initialPrice, programId) ==
    /\ BuilderIdle
    /\ bop' = "initializeOracle"
    /\ bargs' = [op |-> "initializeOracle", authority |-> authority,
                 initialPrice |-> initialPrice, programId |-> programId]
    /\ ix' = createInitializeOracleInstructions(Key(150), authority, NoKey,
                                                initialPrice, programId, 1000000)
    /\ UNCHANGED <<ix2, authVars, consoleLog, decVars, pdaVars, uiVars, appVars>>

BuildUpdatePrice(authority, price, confidence, programId) ==
    /\ BuilderIdle
    /\ bop' = "updatePrice"
    /\ bargs' = [op |-> "updatePrice", authority |-> authority, price |-> price,
                 confidence |-> confidence, programId |-> programId]
    /\ ix' = createUpdatePriceInstruction(Key(150), authority, price, confidence,
                                          programId)
    /\ UNCHANGED <<ix2, authVars, consoleLog, decVars, pdaVars, uiVars, appVars>>

\* Context ids across and beyond the unsigned 32-bit range.
SampleContextIds ==
    {Big(FALSE, 0, 0, 0, 0, 0),
     Big(FALSE, 1, 0, 0, 0, 0),
     Big(FALSE, 22136, 4660, 0, 0, 0),               \* 0x12345678
     Big(FALSE, 65535, 65535, 0, 0, 0),              \* 2^32 - 1
     Big(FALSE, 0, 0, 1, 0, 0),                      \* 2^32
     Big(FALSE, 22136, 4660, 1, 0, 0),               \* 2^32 + 0x12345678
     Big(TRUE, 1, 0, 0, 0, 0)}                       \* -1

\* Amounts across and beyond the unsigned 64-bit range.
SampleAmounts ==
    {Big(FALSE, 0, 0, 0, 0, 0),
     Big(FALSE, 51712, 15258, 0, 0, 0),              \* 1_000_000_000
     Big(FALSE, 65535, 65535, 65535, 65535, 0),      \* 2^64 - 1
     Big(FALSE, 0, 0, 0, 0, 1),                      \* 2^64
     Big(TRUE, 1, 0, 0, 0, 0)}                       \* -1

\* The matcher state, slab and oracle accounts the builders are given.
MatcherState == Key(100)
SlabPubkey == Key(110)
OraclePubkey == Key(150)

BuildWithdraw(user, amount, programId) ==
    /\ BuilderIdle
    /\ bop' = "withdraw"
    /\ bargs' = [op |-> "withdraw", user |-> user, amount |-> amount,
                 programId |-> programId]
    /\ ix' = createWithdrawInstruction(user, [amount |-> amount, mint |-> SolMint],
                                       programId)
    /\ UNCHANGED <<ix2, authVars, consoleLog, decVars, pdaVars, uiVars, appVars>>

BuildExecuteCrossSlab(user, side, size, price, programId) ==
    /\ BuilderIdle
    /\ bop' = "executeCrossSlab"
    /\ bargs' = [op |-> "executeCrossSlab", user |-> user, side |-> side,
                 size |-> size, price |-> price, programId |-> programId]
    /\ ix' = createExecuteCrossSlabInstruction(user, SlabPubkey, OraclePubkey,
                 [side |-> side, size |-> size, price |-> price], programId)
    /\ UNCHANGED <<ix2, authVars, consoleLog, decVars, pdaVars, uiVars, appVars>>

BuildRouterReserve(user, amount, contextId, programId) ==
    /\ BuilderIdle
    /\ bop' = "routerReserve"
    /\ bargs' = [op |-> "routerReserve", user |-> user, amount |-> amount,
                 contextId |-> contextId, programId |-> programId]
    /\ ix' = createRouterReserveInstruction(user, MatcherState, amount, contextId,
                                            programId)
    /\ UNCHANGED <<ix2, authVars, consoleLog, decVars, pdaVars, uiVars, appVars>>

BuildRouterRelease(user, contextId, programId) ==
    /\ BuilderIdle
    /\ bop' = "routerRelease"
    /\ bargs' = [op |-> "routerRelease", user |-> user, contextId |-> contextId,
                 programId |-> programId]
    /\ ix' = createRouterReleaseInstruction(user, MatcherState, contextId, programId)
    /\ UNCHANGED <<ix2, authVars, consoleLog, decVars, pdaVars, uiVars, appVars>>

BuildLiquidateUser(liquidator, targetUser, programId) ==
    /\ BuilderIdle
    /\ bop' = "liquidateUser"
    /\ bargs' = [op |-> "liquidateUser", user |-> liquidator,
                 targetUser |-> targetUser, programId |-> programId]
    /\ ix' = createLiquidateUserInstruction(liquidator, targetUser, programId)
    /\ UNCHANGED <<ix2, authVars, consoleLog, decVars, pdaVars, uiVars, appVars>>

\* The builder named by bop, called on the arguments kept in bargs.
CallBuilder ==
    CASE bop = "initializePortfolio" ->
            createInitializePortfolioInstructions(bargs.user, bargs.programId, 1024, 1000000)
      [] bop = "deposit" ->
            createDepositInstruction(bargs.user, [amount |-> bargs.amount, mint |-> SolMint],
                                     bargs.programId)
      [] bop = "withdraw" ->
            createWithdrawInstruction(bargs.user, [amount |-> bargs.amount, mint |-> SolMint],
                                      bargs.programId)
      [] bop = "executeCrossSlab" ->
            createExecuteCrossSlabInstruction(bargs.user, SlabPubkey, OraclePubkey,
                [side |-> bargs.side, size |-> bargs.size, price |-> bargs.price],
                bargs.programId)
      [] bop = "routerReserve" ->
            createRouterReserveInstruction(bargs.user, MatcherState, bargs.amount,
                                           bargs.contextId, bargs.programId)
      [] bop = "routerRelease" ->
            createRouterReleaseInstruction(bargs.user, MatcherState, bargs.contextId,
                                           bargs.programId)
      [] bop = "liquidateUser" ->
            createLiquidateUserInstruction(bargs.user, bargs.targetUser, bargs.programId)
      [] bop = "initializeOracle" ->
            createInitializeOracleInstructions(Key(150), bargs.authority, NoKey,
                                               bargs.initialPrice, bargs.programId, 1000000)
      [] bop = "updatePrice" ->
            createUpdatePriceInstruction(Key(150), bargs.authority, bargs.price,
                                         bargs.confidence, bargs.programId)

\* The caller calls the same builder again with the same arguments.
BuildAgain ==
    /\ bop # "none"
    /\ ix2.kind = "none"
    /\ ix2' = CallBuilder
    /\ UNCHANGED <<bop, bargs, ix, authVars, consoleLog, decVars, pdaVars, uiVars, appVars>>

\* The hash as the builders' behaviours sample it.
BuildCurves == {[b \in Buckets |-> {255}], [b \in Buckets |-> {254, 3}]}

InitBuild ==
    /\ govAccount = NoAccount
    /\ AuthIdle
    /\ consoleLog = <<>>
    /\ DecIdle
    /\ BldIdle
    /\ offCurve \in BuildCurves
    /\ NoDerivation
    /\ UiIdle
    /\ AppIdle

NextBuild ==
    \/ \E u \in Keys, p \in ProgramIds : BuildInitializePortfolio(u, p)
    \/ \E u \in Keys, a \in SampleBigs, p \in ProgramIds : BuildDeposit(u, a, p)
    \/ \E u \in Keys, a \in SampleAmounts, p \in ProgramIds : BuildWithdraw(u, a, p)
    \/ \E u \in Keys, side \in {0, 1}, size \in SampleConfidences, price \in SampleConfidences, p \in ProgramIds : BuildExecuteCrossSlab(u, side, size, price, p)
    \/ \E u \in Keys, a \in SampleAmounts, c \in SampleContextIds, p \in ProgramIds : BuildRouterReserve(u, a, c, p)
    \/ \E u \in Keys, c \in SampleContextIds, p \in ProgramIds : BuildRouterRelease(u, c, p)
    \/ \E u \in Keys, t \in Keys, p \in ProgramIds : BuildLiquidateUser(u, t, p)
    \/ \E u \in Keys, a \in SampleBigs, p \in ProgramIds : BuildInitializeOracle(u, a, p)
    \/ \E a \in SampleBigs, c \in SampleConfidences, p \in ProgramIds :
          BuildUpdatePrice(Key(1), a, c, p)
    \/ BuildAgain
    \/ \E acct \in {NoAccount, OtherAccount} : LedgerChange(acct)

SpecBuild == InitBuild /\ [][NextBuild]_vars

(***************************************************************************)
(* Claims about the builders (under SpecBuild).                            *)
(***************************************************************************)
\* The instruction sent to the program: the one built, or the second of the
\* pair [create account, initialize].
ProgramIx == IF ix.kind = "instructions" THEN ix.list[2] ELSE ix

\* C8: for every amount in 0..2^64-1 the deposit payload has 9 bytes, byte 0
\* is RouterInstruction.Deposit and bytes 1..8 read back as an unsigned
\* little-endian 64-bit integer give the amount.
C8_DepositRoundTrip ==
    (bop = "deposit" /\ UInt64InRange(bargs.amount))
        => /\ ix.kind = "instruction"
           /\ Len(ix.data) = 9
           /\ ix.data[1] = RouterInstruction.Deposit
           /\ readBigUInt64LE(ix.data, 1) = bargs.amount

\* amount 1_000_000_000 = 0x3B9ACA00
C8_Witness ==
    /\ bop = "deposit"
    /\ bargs.amount = Big(FALSE, 51712, 15258, 0, 0, 0)
    /\ ix.kind = "instruction"
    /\ ix.data = <<3, 0, 202, 154, 59, 0, 0, 0, 0>>

\* C9: for every price and confidence in the signed 64-bit range the
\* update-price payload has 17 bytes, byte 0 is OracleInstruction.UpdatePrice
\* and bytes 1..8 and 9..16 read back as two's-complement little-endian
\* 64-bit integers give the price and the confidence.
C9_UpdatePriceRoundTrip ==
    (bop = "updatePrice" /\ Int64InRange(bargs.price) /\ Int64InRange(bargs.confidence))
        => /\ ix.kind = "instruction"
           /\ Len(ix.data) = 17
           /\ ix.data[1] = OracleInstruction.UpdatePrice
           /\ readBigInt64LE(ix.data, 1) = bargs.price
           /\ readBigInt64LE(ix.data, 9) = bargs.confidence

\* price -1 and confidence -2^63
C9_Witness ==
    /\ bop = "updatePrice"
    /\ bargs.price = Big(TRUE, 1, 0, 0, 0, 0)
    /\ bargs.confidence = Big(TRUE, 0, 0, 0, 32768, 0)
    /\ ix.kind = "instruction"
    /\ ix.data = <<1, 255, 255, 255, 255, 255, 255, 255, 255,
                   0, 0, 0, 0, 0, 0, 0, 128>>

\* C10 as stated: byte 0 of the payload is 0 for the initialize operation and
\* 1 for the deposit operation.
C10_InitializeZeroDepositOne ==
    /\ (bop = "initializeOracle" /\ ix.kind # "threw") => ProgramIx.data[1] = 0
    /\ (bop = "deposit" /\ ix.kind # "threw") => ProgramIx.data[1] = 1

\* C10 amended: byte 0 of the payload is 0 for the oracle's initialize, 1 for
\* the router's initialize-portfolio and 3 for the deposit operation.
C10_InitializeZeroDepositThree ==
    /\ (bop = "initializeOracle" /\ ix.kind # "threw") => ProgramIx.data[1] = 0
    /\ (bop = "initializePortfolio" /\ ix.kind # "threw") => ProgramIx.data[1] = 1
    /\ (bop = "deposit" /\ ix.kind # "threw") => ProgramIx.data[1] = 3

C10_Witness ==
    /\ bop = "deposit"
    /\ ix.kind = "instruction"
    /\ ProgramIx.data[1] = 3
    /\ Len(ProgramIx.data) = 9

\* Where the context id sits in the payload of the two liquidity builders.
ContextIdOffset == IF bop = "routerReserve" THEN 9 ELSE 1

\* The last seed of the LP seat account (account 3 of both builders).
LpSeatContextSeed == ix.keys[4].pubkey.seeds[5].val

\* C11: for every contextId in 0..2^32-1 the reserve and release builders
\* put the same four bytes in the payload (bytes 9..12, resp. 1..4) and in
\* the last lp_seat seed, and they are the unsigned little-endian encoding
\* of contextId.
C11_ContextIdSameBytes ==
    (/\ bop \in {"routerReserve", "routerRelease"}
     /\ UInt32InRange(bargs.contextId)
     /\ ix.kind = "instruction")
        => /\ Len(LpSeatContextSeed) = 4
           /\ LpSeatContextSeed
                  = SubSeq(ix.data, ContextIdOffset + 1, ContextIdOffset + 4)
           /\ LpSeatContextSeed = UInt32Bytes(bargs.contextId.mag)
           /\ readUInt32LE(ix.data, ContextIdOffset) = bargs.contextId

\* contextId 0x12345678 reserved and released
C11_Witness ==
    /\ bop = "routerRelease"
    /\ bargs.contextId = Big(FALSE, 22136, 4660, 0, 0, 0)
    /\ ix.kind = "instruction"
    /\ ix.data = <<10, 120, 86, 52, 18>>
    /\ LpSeatContextSeed = <<120, 86, 52, 18>>

\* A value handed to a builder does not fit the width of its field.
ValueDoesNotFit ==
    \/ bop \in {"deposit", "withdraw", "routerReserve"} /\ ~UInt64InRange(bargs.amount)
    \/ bop \in {"routerReserve", "routerRelease"} /\ ~UInt32InRange(bargs.contextId)

\* C12: a deposit, withdraw or reserve amount outside 0..2^64-1, or a
\* contextId outside 0..2^32-1, makes the builder return a
\* ValueTooLargeForWidth error value; it does not raise an exception.
C12_TypedErrorValue ==
    ValueDoesNotFit => (ix.kind = "error" /\ ix.error = "ValueTooLargeForWidth")

PercolatorClient(routerProgramId) == [routerProgramId |-> routerProgramId]

\* PercolatorClient.getPortfolioAddress(user)
getPortfolioAddress(this, user) == createPortfolioAddress(user, this.routerProgramId)

SameCall(a, b) == a.helper = b.helper /\ a.args = b.args

\* The call just made is kept as the latest one, and as the first one when
\* it is the first.
Recorded ==
    /\ dfirst' = IF dfirst = NoCall THEN dlast' ELSE dfirst
    /\ dothers' = (dothers \/ (dfirst # NoCall /\ ~SameCall(dlast'.call, dfirst.call)))
    /\ UNCHANGED <<offCurve, authVars, consoleLog, decVars, bldVars, uiVars, appVars>>

\* createPortfolioAddress returns the address alone.
AddressOnly(address) == [threw |-> "no", address |-> address]

DeriveAuthorityPda(programId) ==
    /\ dlast' = [call |-> [helper |-> "deriveAuthorityPda", args |-> <<programId>>],
                 result |-> deriveAuthorityPda(programId)]
    /\ Recorded

DeriveRouterSignerPda(programId) ==
    /\ dlast' = [call |-> [helper |-> "deriveRouterSignerPda", args |-> <<programId>>],
                 result |-> deriveRouterSignerPda(programId)]
    /\ Recorded

DeriveInsuranceVaultPda(programId) ==
    /\ dlast' = [call |-> [helper |-> "deriveInsuranceVaultPda", args |-> <<programId>>],
                 result |-> deriveInsuranceVaultPda(programId)]
    /\ Recorded

DeriveVaultPda(mint, programId) ==
    /\ dlast' = [call |-> [helper |-> "deriveVaultPda", args |-> <<mint, programId>>],
                 result |-> deriveVaultPda(mint, programId)]
    /\ Recorded

DeriveEscrowPda(user, slab, mint, programId) ==
    /\ dlast' = [call |-> [helper |-> "deriveEscrowPda", args |-> <<user, slab, mint, programId>>],
                 result |-> deriveEscrowPda(user, slab, mint, programId)]
    /\ Recorded

DeriveCapPda(user, slab, mint, nonce, programId) ==
    /\ dlast' = [call |-> [helper |-> "deriveCapPda", args |-> <<user, slab, mint, nonce, programId>>],
                 result |-> deriveCapPda(user, slab, mint, nonce, programId)]
    /\ Recorded

DerivePortfolioPda(user, programId) ==
    /\ dlast' = [call |-> [helper |-> "derivePortfolioPda", args |-> <<user, programId>>],
                 result |-> derivePortfolioPda(user, programId)]
    /\ Recorded

DeriveRegistryPda(programId) ==
    /\ dlast' = [call |-> [helper |-> "deriveRegistryPda", args |-> <<programId>>],
                 result |-> deriveRegistryPda(programId)]
    /\ Recorded

DeriveLpSeatPda(routerId, matcherState, portfolio, contextId, programId) ==
    /\ dlast' = [call |-> [helper |-> "deriveLpSeatPda", args |-> <<routerId, matcherState, portfolio, contextId, programId>>],
                 result |-> deriveLpSeatPda(routerId, matcherState, portfolio, contextId, programId)]
    /\ Recorded

DeriveVenuePnlPda(routerId, matcherState, programId) ==
    /\ dlast' = [call |-> [helper |-> "deriveVenuePnlPda", args |-> <<routerId, matcherState, programId>>],
                 result |-> deriveVenuePnlPda(routerId, matcherState, programId)]
    /\ Recorded

CreatePortfolioAddress(user, programId) ==
    /\ dlast' = [call |-> [helper |-> "createPortfolioAddress", args |-> <<user, programId>>],
                 result |-> AddressOnly(createPortfolioAddress(user, programId))]
    /\ Recorded

GetPortfolioAddress(user, programId) ==
    /\ dlast' = [call |-> [helper |-> "getPortfolioAddress", args |-> <<user, programId>>],
                 result |-> AddressOnly(getPortfolioAddress(PercolatorClient(programId), user))]
    /\ Recorded

\* The users whose accounts are derived.
DeriveUsers == {Key(1), Key(2)}

\* Nonces of capability tokens: one that fits a u64 and one that does not.
SampleNonces == {Big(FALSE, 7, 0, 0, 0, 0), Big(FALSE, 0, 0, 0, 0, 1)}

\* Context ids of LP seats: one that fits a u32 and one that does not.
SeatContextIds == {Big(FALSE, 22136, 4660, 0, 0, 0), Big(FALSE, 0, 0, 1, 0, 0)}

\* The hash as the derivations' behaviours sample it: the nonces off the
\* curve for the seed lists of class 0 and for those of the other classes.
CurveOf(s, t) == [b \in Buckets |-> IF b = 0 THEN s ELSE t]

SampleCurves ==
    {CurveOf({255}, {255}), CurveOf({254, 1}, {1}), CurveOf({1}, {254, 1}),
     CurveOf({0}, {255, 0}), CurveOf({253, 0}, {0}), CurveOf({}, {200}),
     CurveOf({200}, {})}

InitDerive ==
    /\ govAccount = NoAccount
    /\ AuthIdle
    /\ consoleLog = <<>>
    /\ DecIdle
    /\ BldIdle
    /\ offCurve \in SampleCurves
    /\ NoDerivation
    /\ UiIdle
    /\ AppIdle

NextDerive ==
    \/ \E p \in ProgramIds : DeriveAuthorityPda(p)
    \/ \E p \in ProgramIds : DeriveRouterSignerPda(p)
    \/ \E p \in ProgramIds : DeriveInsuranceVaultPda(p)
    \/ \E p \in ProgramIds : DeriveVaultPda(SolMint, p)
    \/ \E u \in DeriveUsers, p \in ProgramIds : DeriveEscrowPda(u, SlabPubkey, SolMint, p)
    \/ \E n \in SampleNonces, p \in ProgramIds : DeriveCapPda(Key(1), SlabPubkey, SolMint, n, p)
    \/ \E u \in DeriveUsers, p \in ProgramIds : DerivePortfolioPda(u, p)
    \/ \E p \in ProgramIds : DeriveRegistryPda(p)
    \/ \E c \in SeatContextIds, p \in ProgramIds : DeriveLpSeatPda(p, MatcherState, Key(1), c, p)
    \/ \E p \in ProgramIds : DeriveVenuePnlPda(p, MatcherState, p)
    \/ \E u \in DeriveUsers, p \in ProgramIds : CreatePortfolioAddress(u, p)
    \/ \E u \in DeriveUsers, p \in ProgramIds : GetPortfolioAddress(u, p)

SpecDerive == InitDerive /\ [][NextDerive]_vars

(***************************************************************************)
(* Claims about the derivations (under SpecDerive).                        *)
(***************************************************************************)
\* The latest call was a derive*Pda helper whose search ran.
Searched ==
    /\ dlast.call.helper \notin {"none", "createPortfolioAddress", "getPortfolioAddress"}
    /\ dlast.result.threw \in {"no", "Error"}

LastProgramId == dlast.call.args[Len(dlast.call.args)]

\* The nonces of lo..255 that give the latest call's seed list a valid address.
ValidNonces(lo) ==
    {n \in lo..255 : Candidate(dlast.result.seeds, LastProgramId, n).threw = "no"}

\* The latest search returned the address and bump of the highest nonce of
\* lo..255 that is valid, after one hash per nonce from 255 down to it.
ReturnedFirstFrom255(lo) ==
    /\ dlast.result.threw = "no"
    /\ dlast.result.bump \in ValidNonces(lo)
    /\ \A n \in ValidNonces(lo) : n <= dlast.result.bump
    /\ dlast.result.address
           = Candidate(dlast.result.seeds, LastProgramId, dlast.result.bump).address
    /\ dlast.result.attempts = 256 - dlast.result.bump

\* C14 as stated: the helper returns the first of the discriminants 255, 254,
\* ..., 0 that gives a valid address, after at most 256 attempts.
C14_FirstValidOf255To0 ==
    Searched => /\ dlast.result.attempts <= 256
                /\ ValidNonces(0) # {} => ReturnedFirstFrom255(0)

\* C14 amended: the helper returns the first of the discriminants 255, 254,
\* ..., 1 that gives a valid address, after at most 255 attempts; when none of
\* them does it raises an error after 255 attempts (discriminant 0 is never
\* tried).
C14_FirstValidOf255To1 ==
    Searched => /\ dlast.result.attempts <= 255
                /\ ValidNonces(1) # {} => ReturnedFirstFrom255(1)
                /\ ValidNonces(1) = {} => /\ dlast.result.threw = "Error"
                                          /\ dlast.result.attempts = 255

\* the portfolio PDA found at the last nonce tried, 1, after 255 hashes
C14_Witness ==
    /\ dlast.call.helper = "derivePortfolioPda"
    /\ dlast.result.threw = "no"
    /\ dlast.result.bump = 1
    /\ dlast.result.attempts = 255
    /\ ValidNonces(0) = {1}

\* C15 as stated: the bump returned is the lowest of the discriminants 0..255
\* that give a valid address.
C15_LowestValidBump ==
    (Searched /\ dlast.result.threw = "no")
        => /\ dlast.result.bump \in ValidNonces(0)
           /\ \A n \in ValidNonces(0) : dlast.result.bump <= n

\* C15 amended: the bump returned is the highest of the discriminants 1..255
\* that give a valid address.
C15_HighestValidBump ==
    (Searched /\ dlast.result.threw = "no")
        => /\ dlast.result.bump \in ValidNonces(1)
           /\ \A n \in ValidNonces(1) : n <= dlast.result.bump

\* the LP seat derived where 254 and 1 are both valid: 254 is returned
C15_Witness ==
    /\ dlast.call.helper = "deriveLpSeatPda"
    /\ dlast.result.threw = "no"
    /\ ValidNonces(0) = {254, 1}
    /\ dlast.result.bump = 254

RouterBuilders ==
    {"initializePortfolio", "deposit", "withdraw", "executeCrossSlab",
     "routerReserve", "routerRelease", "liquidateUser"}

\* The address derived from the owner key and the one seed 'portfolio'.
SeedAddress(user) ==
    [derived |-> "createWithSeed", base |-> user, seed |-> "portfolio",
     owner |-> bargs.programId]

\* The portfolio account of user is the seed address, it is what the
\* client's getPortfolioAddress gives, and it is not the portfolio PDA.
IsSeedAddress(portfolio, user) ==
    /\ portfolio = SeedAddress(user)
    /\ portfolio = getPortfolioAddress(PercolatorClient(bargs.programId), user)
    /\ portfolio.derived # derivePortfolioPda(user, bargs.programId).address.derived

\* C17: the portfolio account every router builder puts in its instruction
\* is createPortfolioAddress(user, programId), the address derived from the
\* user key and the one seed 'portfolio' without a discriminant search; it
\* is the address PercolatorClient.getPortfolioAddress returns and never the
\* address derivePortfolioPda finds.
C17_PortfolioIsSeedAddress ==
    (bop \in RouterBuilders /\ ix.kind # "threw")
        => /\ IsSeedAddress(ProgramIx.keys[1].pubkey, bargs.user)
           /\ bop = "initializePortfolio"
                  => IsSeedAddress(ix.list[1].newAccountPubkey, bargs.user)
           /\ bop = "liquidateUser"
                  => IsSeedAddress(ix.keys[3].pubkey, bargs.targetUser)

\* a liquidation: both portfolios are seed addresses
C17_Witness ==
    /\ bop = "liquidateUser"
    /\ bargs.user = Key(1)
    /\ bargs.targetUser = Key(2)
    /\ ix.kind = "instruction"
    /\ ix.keys[1].pubkey = SeedAddress(Key(1))
    /\ ix.keys[3].pubkey = SeedAddress(Key(2))
    /\ derivePortfolioPda(Key(2), bargs.programId).threw = "no"

\* C18: no answer is kept from one call to the next.  A call made after an
\* earlier call has had its answer from isMultisigMember answers from the
\* record the governance address holds while it runs: a wallet other than the
\* governance address is granted exactly when that record is a committee
\* listing it, whatever the earlier call answered.
C18_NextCallReadsAfresh ==
    (hpc = "done" /\ prev # NoPrev /\ ~changedDuring /\ ~transportFailed)
        => (hresult <=> (\/ wallet = governance
                         \/ /\ govAccount.kind = "multisig"
                            /\ wallet \in govAccount.members))

\* a member was granted, left the committee, and is denied by the next call
C18_Witness ==
    /\ hpc = "done"
    /\ prev = [wallet |-> wallet, result |-> TRUE]
    /\ wallet # governance
    /\ ~changedDuring
    /\ ~transportFailed
    /\ govAccount.kind = "multisig"
    /\ wallet \notin govAccount.members
    /\ isMultisig = "true"
    /\ ~hresult

(***************************************************************************)
(* MULTISIG PROPOSAL BUTTON (app/admin/components/MultisigProposalButton)  *)
(* and the ConfirmationModal it renders.                                   *)
(*                                                                         *)
(* handleClick and handleConfirm are async: each await is a step, and the  *)
(* ledger, the wallet and the user act between the steps.  One handleClick *)
(* and one handleConfirm are in progress at a time.  click records the     *)
(* course of the latest click: whether a wallet was connected, whether     *)
(* isSquadsMultisig was asked, what it answered, the multisigInfo the      *)
(* handler holds, whether buildTransaction was called, and how it ended.   *)
(* userConfirmed, signed and sent are counted from the opening of the      *)
(* confirmation modal.  The console keeps its latest MaxConsole lines.     *)
(***************************************************************************)
\* console.error(line) on a console holding log
ConsoleError(log, line) ==
    IF Len(log) < MaxConsole THEN Append(log, line) ELSE Append(Tail(log), line)

\* getMultisigInfo: the threshold and the members of the fetched account, null
\* (with a console line) when the fetch throws.
getMultisigInfo(fetched) ==
    IF fetched.threw
    THEN [null |-> TRUE, threshold |-> 0, members |-> {}]
    ELSE [null |-> FALSE, threshold |-> fetched.account.threshold,
          members |-> fetched.account.members]

\* A variant of handleClick's wallet test that lets every click pass.
NoWalletConnected_Ignored == FALSE

\* if (!wallet.publicKey)
NoWalletConnected == walletKey = NoKey

\* handleClick up to its first await: the wallet check, then the call of
\* isSquadsMultisig.
HandleClick ==
    /\ kpc = "idle"
    /\ IF NoWalletConnected
       THEN /\ alertText' = "Please connect your wallet"
            /\ click' = [NoClick EXCEPT !.hadWallet = (walletKey # NoKey),
                                        !.ended = "noWallet"]
            /\ UNCHANGED kpc
       ELSE /\ kpc' = "isSquads"
            /\ click' = [NoClick EXCEPT !.hadWallet = (walletKey # NoKey),
                                        !.checked = TRUE, !.ended = "pending"]
            /\ UNCHANGED alertText
    /\ UNCHANGED <<showConfirmation, isMultisigState, showSquadsInstructions,
                   proposalInstructions, requireTyping, typedText, mpc, mloading,
                   userConfirmed, signed, sent, lastConfirm, walletVars, grdVars,
                   authVars, consoleLog, decVars, bldVars, pdaVars, appVars>>

\* isSquadsMultisig answers: setIsMultisig, then the multisig flow (up to its
\* await of getMultisigInfo) or setShowConfirmation(true).
HandleClick_IsSquads(transportOk) ==
    /\ kpc = "isSquads"
    /\ LET r == isSquadsMultisig(FromAccountAddress(govAccount, transportOk))
       IN /\ isMultisigState' = IF r.ret THEN "true" ELSE "false"
          /\ IF r.ret
             THEN /\ kpc' = "getInfo"
                  /\ click' = [click EXCEPT !.detected = "multisig"]
                  /\ UNCHANGED <<showConfirmation, userConfirmed, signed, sent>>
             ELSE /\ kpc' = "idle"
                  /\ click' = [click EXCEPT !.detected = "single", !.ended = "modal"]
                  /\ showConfirmation' = TRUE
                  /\ userConfirmed' = (showConfirmation /\ userConfirmed)
                  /\ signed' = (showConfirmation /\ signed)
                  /\ sent' = (showConfirmation /\ sent)
    /\ UNCHANGED <<showSquadsInstructions, proposalInstructions, requireTyping,
                   typedText, mpc, mloading, alertText, lastConfirm, walletVars, grdVars,
                   authVars, consoleLog, decVars, bldVars, pdaVars, appVars>>

\* handleMultisigFlow: getMultisigInfo answers; null ends the click with an
\* alert, otherwise buildTransaction is called.
HandleMultisigFlow_Info(transportOk) ==
    /\ kpc = "getInfo"
    /\ LET multisigInfo == getMultisigInfo(FromAccountAddress(govAccount, transportOk))
       IN IF multisigInfo.null
          THEN /\ consoleLog' = ConsoleError(consoleLog, "Error fetching multisig info:")
               /\ alertText' = "Error: Could not fetch multisig information"
               /\ kpc' = "idle"
               /\ click' = [click EXCEPT !.ended = "infoError"]
          ELSE /\ kpc' = "build"
               /\ click' = [click EXCEPT !.built = TRUE,
                               !.info = [generated |-> TRUE,
                                         threshold |-> multisigInfo.threshold,
                                         members |-> multisigInfo.members]]
               /\ UNCHANGED <<consoleLog, alertText>>
    /\ UNCHANGED <<showConfirmation, isMultisigState, showSquadsInstructions,
                   proposalInstructions, requireTyping, typedText, mpc, mloading,
                   userConfirmed, signed, sent, lastConfirm, walletVars, grdVars,
                   authVars, decVars, bldVars, pdaVars, appVars>>

\* handleMultisigFlow: buildTransaction answers and the transaction is
\* serialized; the instructions are generated and shown.  An exception of
\* either is caught by handleClick.
HandleMultisigFlow_Build(ok) ==
    /\ kpc = "build"
    /\ kpc' = "idle"
    /\ IF ok
       THEN /\ proposalInstructions' = click.info
            /\ showSquadsInstructions' = TRUE
            /\ click' = [click EXCEPT !.ended = "instructions"]
            /\ UNCHANGED <<consoleLog, alertText>>
       ELSE /\ consoleLog' = ConsoleError(consoleLog, "Error handling action:")
            /\ alertText' = "Error: "
            /\ click' = [click EXCEPT !.ended = "error"]
            /\ UNCHANGED <<proposalInstructions, showSquadsInstructions>>
    /\ UNCHANGED <<showConfirmation, isMultisigState, requireTyping, typedText, mpc,
                   mloading, userConfirmed, signed, sent, lastConfirm, walletVars, grdVars,
                   authVars, decVars, bldVars, pdaVars, appVars>>

\* The Close button of the instructions.
CloseInstructions ==
    /\ showSquadsInstructions
    /\ showSquadsInstructions' = FALSE
    /\ UNCHANGED <<showConfirmation, isMultisigState, proposalInstructions,
                   requireTyping, typedText, kpc, mpc, mloading, alertText, click,
                   userConfirmed, signed, sent, lastConfirm, walletVars, grdVars,
                   authVars, consoleLog, decVars, bldVars, pdaVars, appVars>>

\* ConfirmationModal: requireTyping ? typedText === requireTyping : true
\* the typed text not compared
isConfirmEnabled_Always == TRUE

isConfirmEnabled == IF requireTyping # "" THEN typedText = requireTyping ELSE TRUE

\* The user types into the modal's input, rendered when requireTyping is given.
ModalType(text) ==
    /\ showConfirmation
    /\ requireTyping # ""
    /\ text # typedText
    /\ typedText' = text
    /\ UNCHANGED <<showConfirmation, isMultisigState, showSquadsInstructions,
                   proposalInstructions, requireTyping, kpc, mpc, mloading,
                   alertText, click, userConfirmed, signed, sent, lastConfirm, walletVars,
                   grdVars, authVars, consoleLog, decVars, bldVars, pdaVars, appVars>>

\* The modal's Cancel button (disabled while loading): handleClose.
ModalClose ==
    /\ showConfirmation
    /\ ~mloading
    /\ typedText' = ""
    /\ showConfirmation' = FALSE
    /\ UNCHANGED <<isMultisigState, showSquadsInstructions, proposalInstructions,
                   requireTyping, kpc, mpc, mloading, alertText, click,
                   userConfirmed, signed, sent, lastConfirm, walletVars, grdVars,
                   authVars, consoleLog, decVars, bldVars, pdaVars, appVars>>

\* The modal's Confirm button (disabled unless isConfirmEnabled, and while
\* loading): the modal's handleConfirm calls onConfirm, the button's
\* handleConfirm.  Without a wallet that can sign it alerts and returns, and
\* the modal closes; otherwise it calls buildTransaction.
ModalConfirm ==
    /\ showConfirmation
    /\ ~mloading
    /\ isConfirmEnabled
    /\ userConfirmed' = TRUE
    /\ lastConfirm' = [result |-> IF walletKey = NoKey \/ ~canSign THEN "resolved" ELSE "pending",
                       open |-> showConfirmation, loading |-> mloading, typed |-> typedText]
    /\ IF walletKey = NoKey \/ ~canSign
       THEN /\ alertText' = "Wallet not connected"
            /\ showConfirmation' = FALSE
            /\ typedText' = ""
            /\ UNCHANGED <<mpc, mloading>>
       ELSE /\ mloading' = TRUE
            /\ mpc' = "build"
            /\ UNCHANGED <<alertText, showConfirmation, typedText>>
    /\ UNCHANGED <<isMultisigState, showSquadsInstructions, proposalInstructions,
                   requireTyping, kpc, click, signed, sent, walletVars, grdVars,
                   authVars, consoleLog, decVars, bldVars, pdaVars, appVars>>

\* the finally clause without setTypedText('')
ConfirmFailed_KeepsText ==
    /\ consoleLog' = ConsoleError(ConsoleError(consoleLog, "Transaction failed:"),
                                  "Confirmation action failed:")
    /\ alertText' = "Transaction failed: "
    /\ mpc' = "idle"
    /\ mloading' = FALSE
    /\ lastConfirm' = [lastConfirm EXCEPT !.result = "threw"]
    /\ UNCHANGED <<typedText, showConfirmation, signed, sent>>

\* handleConfirm's catch (it alerts and rethrows), then the modal's catch and
\* finally: the modal stays open.
ConfirmFailed ==
    /\ consoleLog' = ConsoleError(ConsoleError(consoleLog, "Transaction failed:"),
                                  "Confirmation action failed:")
    /\ alertText' = "Transaction failed: "
    /\ mpc' = "idle"
    /\ mloading' = FALSE
    /\ typedText' = ""
    /\ lastConfirm' = [lastConfirm EXCEPT !.result = "threw"]
    /\ UNCHANGED <<showConfirmation, signed, sent>>

\* handleConfirm: buildTransaction answers; wallet.signTransaction is called.
HandleConfirm_Build(ok) ==
    /\ mpc = "build"
    /\ IF ok
       THEN /\ mpc' = "sign"
            /\ UNCHANGED <<consoleLog, alertText, mloading, typedText,
                           showConfirmation, signed, sent, lastConfirm>>
       ELSE ConfirmFailed
    /\ UNCHANGED <<isMultisigState, showSquadsInstructions, proposalInstructions,
                   requireTyping, kpc, click, userConfirmed, walletVars, grdVars,
                   authVars, decVars, bldVars, pdaVars, appVars>>

\* handleConfirm: the wallet signs (or refuses); sendRawTransaction is called.
HandleConfirm_Sign(ok) ==
    /\ mpc = "sign"
    /\ IF ok
       THEN /\ mpc' = "send"
            /\ signed' = TRUE
            /\ UNCHANGED <<consoleLog, alertText, mloading, typedText,
                           showConfirmation, sent, lastConfirm>>
       ELSE ConfirmFailed
    /\ UNCHANGED <<isMultisigState, showSquadsInstructions, proposalInstructions,
                   requireTyping, kpc, click, userConfirmed, walletVars, grdVars,
                   authVars, decVars, bldVars, pdaVars, appVars>>

\* handleConfirm: the node takes the transaction (or the call fails);
\* confirmTransaction is called.
HandleConfirm_Send(ok) ==
    /\ mpc = "send"
    /\ IF ok
       THEN /\ mpc' = "confirm"
            /\ sent' = TRUE
            /\ UNCHANGED <<consoleLog, alertText, mloading, typedText,
                           showConfirmation, signed, lastConfirm>>
       ELSE ConfirmFailed
    /\ UNCHANGED <<isMultisigState, showSquadsInstructions, proposalInstructions,
                   requireTyping, kpc, click, userConfirmed, walletVars, grdVars,
                   authVars, decVars, bldVars, pdaVars, appVars>>

\* handleConfirm: confirmTransaction answers; on success the alert,
\* setShowConfirmation(false), then the modal's onClose and finally.
HandleConfirm_Confirmed(ok) ==
    /\ mpc = "confirm"
    /\ IF ok
       THEN /\ alertText' = "Success! Transaction: "
            /\ showConfirmation' = FALSE
            /\ mpc' = "idle"
            /\ mloading' = FALSE
            /\ typedText' = ""
            /\ lastConfirm' = [lastConfirm EXCEPT !.result = "resolved"]
            /\ UNCHANGED <<consoleLog, signed, sent>>
       ELSE ConfirmFailed
    /\ UNCHANGED <<isMultisigState, showSquadsInstructions, proposalInstructions,
                   requireTyping, kpc, click, userConfirmed, walletVars, grdVars,
                   authVars, decVars, bldVars, pdaVars, appVars>>

\* The user connects, changes or disconnects the wallet.  The components
\* render again with their state as it is; a mounted PermissionGuard has its
\* effect scheduled when wallet.publicKey changed.
WalletChange(key, signs) ==
    /\ <<key, signs>> # <<walletKey, canSign>>
    /\ key = NoKey => ~signs
    /\ walletKey' = key
    /\ canSign' = signs
    /\ effectPending' = (effectPending \/ (view # "unmounted" /\ key # walletKey))
    /\ UNCHANGED <<requiredPermission, envGovernance, envInsurance, hasPermission,
                   gloading, view, btnVars, authVars, consoleLog, decVars, bldVars,
                   pdaVars, appVars>>

\* The record the button's behaviours find at the governance address.
Committee == [kind |-> "multisig", members |-> {Key(1), Key(2)}, threshold |-> 2]

ButtonAccounts == {NoAccount, Committee}

ButtonWallets == {NoKey, Key(1)}

TypedTexts == {"", "CONFIRM", "confirm"}

InitButton ==
    /\ govAccount \in ButtonAccounts
    /\ AuthIdle
    /\ consoleLog = <<>>
    /\ DecIdle
    /\ BldIdle
    /\ PdaIdle
    /\ walletKey = NoKey
    /\ canSign = FALSE
    /\ requireTyping \in {"", "CONFIRM"}
    /\ BtnIdle
    /\ GrdIdle
    /\ AppIdle

NextButton ==
    \/ HandleClick
    \/ \E ok \in BOOLEAN : HandleClick_IsSquads(ok)
    \/ \E ok \in BOOLEAN : HandleMultisigFlow_Info(ok)
    \/ \E ok \in BOOLEAN : HandleMultisigFlow_Build(ok)
    \/ CloseInstructions
    \/ \E text \in TypedTexts : ModalType(text)
    \/ ModalClose
    \/ ModalConfirm
    \/ \E ok \in BOOLEAN : HandleConfirm_Build(ok)
    \/ \E ok \in BOOLEAN : HandleConfirm_Sign(ok)
    \/ \E ok \in BOOLEAN : HandleConfirm_Send(ok)
    \/ \E ok \in BOOLEAN : HandleConfirm_Confirmed(ok)
    \/ \E key \in ButtonWallets, signs \in BOOLEAN : WalletChange(key, signs)
    \/ \E acct \in ButtonAccounts : LedgerChange(acct)

SpecButton == InitButton /\ [][NextButton]_vars

(***************************************************************************)
(* Claims about the MultisigProposalButton (under SpecButton).             *)
(***************************************************************************)
\* The latest click has been handled to its end.
ClickOver == click.ended \notin {"none", "pending"}

\* This step belongs to a click that found a multisig at the governance address.
StepOfMultisigClick == click' # click /\ click'.detected = "multisig"

\* A click that found a multisig neither opens the confirmation modal nor
\* touches the signing: it ends with the instructions shown or with an alert.
MultisigClickNeverSigns ==
    StepOfMultisigClick
        => /\ UNCHANGED <<showConfirmation, mpc, mloading, userConfirmed, signed, sent>>
           /\ click'.ended = "instructions"
                 => showSquadsInstructions' /\ proposalInstructions'.generated

\* The confirmation modal is opened by a click that found a single wallet, and
\* by nothing else; signing needs the user's Confirm in the open modal, and
\* sending needs the signature.
SingleWalletSignsAfterConfirm ==
    /\ (click' # click /\ click'.detected = "single") => showConfirmation'
    /\ (showConfirmation' /\ ~showConfirmation)
          => (click' # click /\ click'.detected = "single" /\ click'.hadWallet)
    /\ (signed' /\ ~signed) => (showConfirmation /\ userConfirmed /\ mloading)
    /\ (sent' /\ ~sent) => (signed /\ userConfirmed)
    /\ signed' => userConfirmed'
    /\ sent' => signed'

\* A click without a wallet alerts and does nothing else; a check is made only
\* for a click with a wallet.
NoWalletNoCheck ==
    /\ click'.checked => click'.hadWallet
    /\ click'.built => click'.hadWallet
    /\ (click' # click /\ ~click'.hadWallet)
          => /\ click'.ended = "noWallet"
             /\ alertText' = "Please connect your wallet"
             /\ UNCHANGED <<kpc, mpc, isMultisigState, showConfirmation,
                            showSquadsInstructions, proposalInstructions,
                            userConfirmed, signed, sent>>

\* C19 as stated: a click with a wallet that finds a multisig shows the Squads
\* instructions and never signs or sends; one that finds a single wallet opens
\* the confirmation modal, and the transaction is signed and sent only after
\* the user confirms; a click without a wallet checks, builds and sends
\* nothing.
C19_MultisigShowsInstructions ==
    [][ /\ (ClickOver' /\ click'.detected = "multisig") => click'.ended = "instructions"
        /\ MultisigClickNeverSigns
        /\ SingleWalletSignsAfterConfirm
        /\ NoWalletNoCheck ]_vars

\* C19: a click with a wallet that finds a multisig never signs or sends and
\* never opens the confirmation modal; it shows the Squads instructions once
\* getMultisigInfo has answered and the transaction was built and serialized,
\* and ends with an error alert and no instructions when getMultisigInfo
\* answers null or the building throws.  A click that finds a single wallet
\* opens the confirmation modal, and the transaction is signed and sent only
\* after the user confirms in it.  A click without a wallet checks, builds and
\* sends nothing.
C19_InstructionsUnlessFetchOrBuildFails ==
    [][ /\ (ClickOver' /\ click'.detected = "multisig")
              => \/ click'.ended = "instructions"
                 \/ /\ click'.ended = "infoError"
                    /\ ~click'.built
                    /\ click' # click
                          => /\ alertText' = "Error: Could not fetch multisig information"
                             /\ UNCHANGED showSquadsInstructions
                 \/ /\ click'.ended = "error"
                    /\ click'.built
                    /\ click' # click
                          => /\ alertText' = "Error: "
                             /\ UNCHANGED showSquadsInstructions
        /\ MultisigClickNeverSigns
        /\ SingleWalletSignsAfterConfirm
        /\ NoWalletNoCheck ]_vars

\* a click found a multisig and showed its threshold and members, and nothing
\* was signed
C19_Witness ==
    /\ click.hadWallet
    /\ click.detected = "multisig"
    /\ click.ended = "instructions"
    /\ showSquadsInstructions
    /\ proposalInstructions = [generated |-> TRUE, threshold |-> 2, members |-> {Key(1), Key(2)}]
    /\ ~signed
    /\ ~showConfirmation

(***************************************************************************)
(* PERMISSION GUARD (app/admin/components/PermissionGuard)                 *)
(*                                                                         *)
(* checkPermission runs as an effect after the render that follows a       *)
(* change of wallet.publicKey.  It has no await: its setState calls are    *)
(* applied together and one render follows.  view is what the latest       *)
(* render returned.                                                        *)
(***************************************************************************)
Permissions == {"public", "governance", "insurance"}

\* An environment variable holding the base58 text of a key.
EnvKey(key) == [kind |-> "key", key |-> key]

\* An environment variable whose text new PublicKey rejects.
EnvMalformed == [kind |-> "malformed", key |-> NoKey]

EnvValues == {EnvUnset, EnvMalformed} \cup {EnvKey(k) : k \in Keys}

\* The body of checkPermission: the value given to setHasPermission, and
\* whether the catch logged.
checkPermission(required, publicKey, governanceEnv, insuranceEnv) ==
    IF required = "public" THEN [has |-> TRUE, logged |-> FALSE]
    ELSE IF publicKey = NoKey THEN [has |-> FALSE, logged |-> FALSE]
    ELSE IF governanceEnv.kind = "malformed" \/ insuranceEnv.kind = "malformed"
    THEN [has |-> FALSE, logged |-> TRUE]
    ELSE IF required = "governance"
    THEN [has |-> governanceEnv.kind = "key" /\ PublicKeyEquals(publicKey, governanceEnv.key),
          logged |-> FALSE]
    ELSE [has |-> insuranceEnv.kind = "key" /\ PublicKeyEquals(publicKey, insuranceEnv.key),
          logged |-> FALSE]

\* What PermissionGuard returns for its state.
Render(has, loading) ==
    IF loading THEN "spinner" ELSE IF ~has THEN "fallback" ELSE "children"

\* The guard is mounted: the first render, and the effect is scheduled.
GuardMount ==
    /\ view = "unmounted"
    /\ view' = Render(hasPermission, gloading)
    /\ effectPending' = TRUE
    /\ UNCHANGED <<requiredPermission, envGovernance, envInsurance, hasPermission,
                   gloading, walletVars, btnVars, authVars, consoleLog, decVars,
                   bldVars, pdaVars, appVars>>

\* The effect runs checkPermission, and the guard renders its new state.
CheckPermission ==
    /\ effectPending
    /\ LET r == checkPermission(requiredPermission, walletKey, envGovernance, envInsurance)
       IN /\ hasPermission' = r.has
          /\ gloading' = FALSE
          /\ view' = Render(r.has, FALSE)
          /\ consoleLog' = IF r.logged
                           THEN ConsoleError(consoleLog, "Error checking permission:")
                           ELSE consoleLog
    /\ effectPending' = FALSE
    /\ UNCHANGED <<requiredPermission, envGovernance, envInsurance, walletVars,
                   btnVars, authVars, decVars, bldVars, pdaVars, appVars>>

GuardWallets == Keys \cup {NoKey}

\* The ledger keeps the account it holds at the governance address while the
\* guard is observed.
InitGuard ==
    /\ govAccount \in LedgerAccounts
    /\ AuthIdle
    /\ consoleLog = <<>>
    /\ DecIdle
    /\ BldIdle
    /\ PdaIdle
    /\ walletKey = NoKey
    /\ canSign = FALSE
    /\ requireTyping = ""
    /\ BtnIdle
    /\ requiredPermission \in Permissions
    /\ envGovernance \in EnvValues
    /\ envInsurance \in EnvValues
    /\ hasPermission = FALSE
    /\ gloading = TRUE
    /\ effectPending = FALSE
    /\ view = "unmounted"
    /\ AppIdle

NextGuard ==
    \/ GuardMount
    \/ CheckPermission
    \/ \E key \in GuardWallets : WalletChange(key, key # NoKey)

SpecGuard == InitGuard /\ [][NextGuard]_vars

(***************************************************************************)
(* Claims about the PermissionGuard (under SpecGuard).                     *)
(***************************************************************************)
\* The guard has rendered the outcome of a check made for the connected wallet.
GuardSettled == view \in {"children", "fallback"} /\ ~effectPending

\* The connected wallet is the configured governance wallet, or a member of
\* the multisig the ledger holds at that address.
GovernanceOrMember ==
    /\ walletKey # NoKey
    /\ envGovernance.kind = "key"
    /\ \/ PublicKeyEquals(walletKey, envGovernance.key)
       \/ /\ govAccount.kind = "multisig"
          /\ walletKey \in govAccount.members

\* C20: with requiredPermission GOVERNANCE the guard shows its children when
\* the connected wallet is the governance wallet or a member of the governance
\* multisig, and the restricted fallback otherwise.
C20_GovernanceWalletOrMember ==
    (requiredPermission = "governance" /\ GuardSettled /\ envInsurance.kind # "malformed")
        => (view = "children" <=> GovernanceOrMember)

(***************************************************************************)
(* ORACLE MONITOR (app/admin/components/OracleMonitor.tsx)                 *)
(*                                                                         *)
(* loadOracles awaits fetchAllOracles and reads the clock when it resumes. *)
(* One loadOracles is in progress at a time.  A JavaScript number is an    *)
(* integer the model holds, Infinity, or a finite value beyond the         *)
(* integers the model holds ("+huge", "-huge").                            *)
(***************************************************************************)
HEALTHY_THRESHOLD == 30

WARNING_THRESHOLD == 60

Num(v) == [kind |-> "int", v |-> v]

Infinity == [kind |-> "Infinity", v |-> 0]

HugePositive == [kind |-> "+huge", v |-> 0]

HugeNegative == [kind |-> "-huge", v |-> 0]

\* Number(bigint)
Number(big) ==
    IF big.mag[3] = 0 /\ big.mag[4] = 0 /\ big.mag[5] = 0 /\ big.mag[2] < 16384
    THEN Num(IF big.neg THEN 0 - (big.mag[1] + Limb * big.mag[2])
                        ELSE big.mag[1] + Limb * big.mag[2])
    ELSE IF big.neg THEN HugeNegative ELSE HugePositive

\* timestamp > 0 ? now - timestamp : Infinity
AgeOf(timestamp, nowSec) ==
    IF timestamp.kind = "+huge" THEN HugeNegative
    ELSE IF timestamp.kind = "int" /\ timestamp.v > 0 THEN Num(nowSec - timestamp.v)
    ELSE Infinity

\* age < 0
Negative(age) == age.kind = "-huge" \/ (age.kind = "int" /\ age.v < 0)

\* age <= threshold
AtMost(age, threshold) ==
    age.kind = "-huge" \/ (age.kind = "int" /\ age.v <= threshold)

\* A variant of classifyStatus whose thresholds are exclusive.
classifyStatus_Exclusive(age) ==
    IF Negative(age) THEN "error"
    ELSE IF AtMost(age, HEALTHY_THRESHOLD - 1) THEN "healthy"
    ELSE IF AtMost(age, WARNING_THRESHOLD - 1) THEN "warning"
    ELSE "stale"

\* classifyStatus(age)
classifyStatus(age) ==
    IF Negative(age) THEN "error"
    ELSE IF AtMost(age, HEALTHY_THRESHOLD) THEN "healthy"
    ELSE IF AtMost(age, WARNING_THRESHOLD) THEN "warning"
    ELSE "stale"

\* The body of the map in loadOracles: one oracle as it is displayed.
DisplayOracle(entry, nowSec) ==
    LET timestamp == Number(entry.data.timestamp)
        age == AgeOf(timestamp, nowSec)
        status == classifyStatus(age)
    IN [instrument |-> entry.data.instrument,
        address |-> entry.address,
        price |-> entry.data.price,
        timestamp |-> timestamp,
        confidence |-> entry.data.confidence,
        authority |-> entry.data.authority,
        isStale |-> (status = "stale"),
        age |-> IF age = Infinity THEN Num(0 - 1) ELSE age,
        status |-> status]

\* getOracleProgramId() is null
NoOracleProgramId == envOracleProgramId \in {"unset", "malformed"}

\* loadOracles up to its await, called by the mount effect and by the
\* interval.
LoadOracles_Call ==
    /\ lpc = "idle"
    /\ IF NoOracleProgramId
       THEN /\ monError' = "Oracle program ID not configured"
            /\ monLoading' = FALSE
            /\ UNCHANGED lpc
       ELSE /\ monLoading' = TRUE
            /\ monError' = "null"
            /\ lpc' = "await"
    /\ UNCHANGED <<envOracleProgramId, now, monOracles, cliVars, authVars, consoleLog,
                   decVars, bldVars, pdaVars, uiVars>>

\* fetchAllOracles answers: the clock is read and the oracles are displayed;
\* an exception of the parsing loop is caught.
LoadOracles_Resume(all) ==
    /\ lpc = "await"
    /\ lpc' = "idle"
    /\ monLoading' = FALSE
    /\ LET r == OracleLoop(getProgramAccounts(all, PRICE_ORACLE_SIZE), <<>>)
       IN IF r.threw
          THEN /\ consoleLog' = ConsoleError(consoleLog, "Failed to fetch oracles:")
               /\ monError' = "Failed to fetch oracles"
               /\ UNCHANGED monOracles
          ELSE /\ monOracles' = [i \in 1..Len(r.oracles) |-> DisplayOracle(r.oracles[i], now)]
               /\ UNCHANGED <<consoleLog, monError>>
    /\ UNCHANGED <<envOracleProgramId, now, cliVars, authVars, decVars, bldVars,
                   pdaVars, uiVars>>

\* fetchAllOracles rejects: the transport failed.
LoadOracles_Fail ==
    /\ lpc = "await"
    /\ lpc' = "idle"
    /\ monLoading' = FALSE
    /\ consoleLog' = ConsoleError(consoleLog, "Failed to fetch oracles:")
    /\ monError' = "Failed to fetch oracles"
    /\ UNCHANGED <<envOracleProgramId, now, monOracles, cliVars, authVars, decVars,
                   bldVars, pdaVars, uiVars>>

\* A second passes.
Tick ==
    /\ now < NowBase + MaxTicks
    /\ now' = now + 1
    /\ UNCHANGED <<envOracleProgramId, lpc, monOracles, monLoading, monError, cliVars,
                   authVars, consoleLog, decVars, bldVars, pdaVars, uiVars>>

\* An oracle account whose last update was at timestamp.
OracleBytesAt(timestamp) ==
    MagicBytes \o <<0, 254>> \o Zeros(6) \o Key(1) \o Key(2)
               \o Int64Bytes(Big(FALSE, 29696, 42043, 11, 0, 0))
               \o Int64Bytes(timestamp)
               \o Int64Bytes(Big(FALSE, 1000, 0, 0, 0, 0))
               \o Zeros(24)

\* Never updated, updated 30 and 60 seconds before the mount, and a second
\* after it.
MonitorTimestamps ==
    {Big(FALSE, 0, 0, 0, 0, 0),
     Big(FALSE, NowBase - HEALTHY_THRESHOLD, 0, 0, 0, 0),
     Big(FALSE, NowBase - WARNING_THRESHOLD, 0, 0, 0, 0),
     Big(FALSE, NowBase + 1, 0, 0, 0, 0)}

MonitorAccountLists ==
    UNION {{[i \in 1..n |-> [pubkey |-> Key(i), account |-> [data |-> OracleBytesAt(f[i])]]] :
               f \in [1..n -> MonitorTimestamps]} : n \in 0..MonitorBatch}

InitMonitor ==
    /\ govAccount = NoAccount
    /\ AuthIdle
    /\ consoleLog = <<>>
    /\ DecIdle
    /\ BldIdle
    /\ PdaIdle
    /\ UiIdle
    /\ CliIdle
    /\ envOracleProgramId \in {"unset", "malformed", "key"}
    /\ now = NowBase
    /\ lpc = "idle"
    /\ monOracles = <<>>
    /\ monLoading = TRUE
    /\ monError = "null"

NextMonitor ==
    \/ LoadOracles_Call
    \/ \E all \in MonitorAccountLists : LoadOracles_Resume(all)
    \/ LoadOracles_Fail
    \/ Tick

SpecMonitor == InitMonitor /\ [][NextMonitor]_vars

(***************************************************************************)
(* Claims about the OracleMonitor (under SpecMonitor).                     *)
(***************************************************************************)
\* Whole seconds from the update at timestamp to nowSec; for a time beyond
\* the integers the model holds, a number of the same side of every threshold.
SecondsSince(timestamp, nowSec) ==
    IF timestamp.kind = "int" THEN nowSec - timestamp.v
    ELSE IF timestamp.kind = "+huge" THEN 0 - 1
    ELSE WARNING_THRESHOLD + 1

\* The status and the flag of a displayed oracle follow its age at nowSec.
ClassifiedByAge(shown, nowSec) ==
    LET age == SecondsSince(shown.timestamp, nowSec)
    IN /\ shown.status = "healthy" <=> (0 <= age /\ age <= 30)
       /\ shown.status = "warning" <=> (30 < age /\ age <= 60)
       /\ shown.status = "stale" <=> age > 60
       /\ shown.isStale <=> shown.status = "stale"

\* C21: every oracle a load displays is healthy iff its age in whole seconds
\* at the load is within 0..30, warning iff within 31..60, stale iff above 60,
\* and its isStale flag is true exactly when its status is stale.
C21_StatusFollowsAge ==
    [][ (lpc = "await" /\ monOracles' # monOracles)
           => \A i \in 1..Len(monOracles') : ClassifiedByAge(monOracles'[i], now) ]_vars

\* a second after the mount a load displayed an oracle of age 31 as warning
\* and one of age 61 as stale
C21_Witness ==
    /\ lpc = "idle"
    /\ now = NowBase + 1
    /\ \E i \in 1..Len(monOracles) :
          /\ monOracles[i].status = "warning"
          /\ monOracles[i].age = Num(HEALTHY_THRESHOLD + 1)
          /\ ~monOracles[i].isStale
    /\ \E i \in 1..Len(monOracles) :
          /\ monOracles[i].status = "stale"
          /\ monOracles[i].age = Num(WARNING_THRESHOLD + 1)
          /\ monOracles[i].isStale

(***************************************************************************)
(* The permission check against a ledger that changes during the call      *)
(* (under SpecAuth).                                                       *)
(***************************************************************************)
\* C22: whatever changes of the account interleave with the two reads of a
\* call, a call without transport failure answers what some single ledger
\* state that existed during the call stands for, and it grants only a wallet
\* that is the governance address or was a member in a state it read.
C22_DecisionOfSomeStateDuringCall ==
    (hpc = "done" /\ ~transportFailed /\ ~hraised)
        => /\ hresult => during.grant
           /\ ~hresult => during.deny
           /\ hresult => (PublicKeyEquals(wallet, governance) \/ during.readMember)

\* the account changed during the call: one of its states denies the wallet,
\* and the state isMultisigMember read lists it
C22_Witness ==
    /\ hpc = "done"
    /\ ~transportFailed
    /\ changedDuring
    /\ isMultisig = "true"
    /\ hresult
    /\ during = [grant |-> TRUE, deny |-> TRUE, readMember |-> TRUE]

(***************************************************************************)
(* PERCOLATOR CLIENT (src/sdk/client.ts).  Up to NumCalls calls of one     *)
(* user are in flight at a time on one client; each await of a method is   *)
(* one step, and the ledger and the other calls act between the steps.     *)
(***************************************************************************)
ClientOps == {"initializePortfolio", "deposit", "withdraw", "placeOrder", "addLiquidity"}

\* The user all calls are made for, and the client they are made on.
ClientUser == Key(1)

ThisClient == PercolatorClient(Key(200))

\* Rent of a 135_000 byte account, as the RPC node answers it.
RentLamports == 940490880

\* Amounts a caller passes: a valid one and one beyond 64 bits.
ClientAmounts == {Big(FALSE, 51712, 15258, 0, 0, 0), Big(FALSE, 0, 0, 0, 0, 1)}

\* addLiquidity: contextId = 0 when the caller passes none.
DefaultContextId == Big(FALSE, 0, 0, 0, 0, 0)

\* the owner comparison left out
portfolioExists_FoundOnly(this, accountInfo) == accountInfo.found

\* portfolioExists, after its getAccountInfo has answered.
portfolioExists(this, accountInfo) ==
    accountInfo.found /\ PublicKeyEquals(accountInfo.owner, this.routerProgramId)

\* The instructions a method builds once its check has let it pass.
ClientInstructions(this, op, user, amount) ==
    CASE op = "initializePortfolio" ->
             createInitializePortfolioInstructions(user, this.routerProgramId, 135000, RentLamports)
      [] op = "deposit" ->
             createDepositInstruction(user, [amount |-> amount, mint |-> SolMint], this.routerProgramId)
      [] op = "withdraw" ->
             createWithdrawInstruction(user, [amount |-> amount, mint |-> SolMint], this.routerProgramId)
      [] op = "placeOrder" ->
             createExecuteCrossSlabInstruction(user, SlabPubkey, OraclePubkey,
                 [side |-> 0, size |-> amount, price |-> amount], this.routerProgramId)
      [] op = "addLiquidity" ->
             createRouterReserveInstruction(user, MatcherState, amount, DefaultContextId, this.routerProgramId)

\* The message a method throws when its check turns it away.
CheckFailedMessage(op) ==
    CASE op = "initializePortfolio" -> "Portfolio already exists for this user"
      [] op = "withdraw" -> "Portfolio does not exist."
      [] OTHER -> "Portfolio does not exist. Initialize portfolio first."

\* A method is called: it awaits portfolioExists.
Client_Call(c, op, amount) ==
    /\ calls[c].pc = "idle"
    /\ calls' = [calls EXCEPT ![c] = [NoClientCall EXCEPT !.op = op, !.pc = "check", !.amount = amount]]
    /\ UNCHANGED <<portfolioAccount, monVars, authVars, consoleLog, decVars, bldVars, pdaVars, uiVars>>

\* Builds the transaction and hands it to sendAndConfirmTransaction, or throws
\* what the builder threw.
SubmitOrThrow(call) ==
    LET built == ClientInstructions(ThisClient, call.op, ClientUser, call.amount)
    IN IF built = BuilderThrew
       THEN [call EXCEPT !.pc = "done", !.outcome = "RangeError"]
       ELSE [call EXCEPT !.pc = "send", !.tx = built, !.submitted = TRUE]

\* getAccountInfo answers (or the transport fails), and the method goes on up to
\* its next await.
Client_PortfolioExists(c, transportOk) ==
    /\ calls[c].pc = "check"
    /\ LET call == calls[c]
           exists == portfolioExists(ThisClient, portfolioAccount)
           checked == [call EXCEPT !.info = portfolioAccount,
                                   !.exists = IF exists THEN "true" ELSE "false"]
           refused == IF call.op = "initializePortfolio" THEN exists ELSE ~exists
       IN calls' = [calls EXCEPT ![c] =
              IF ~transportOk
              THEN [call EXCEPT !.pc = "done", !.outcome = "transport error"]
              ELSE IF refused
              THEN [checked EXCEPT !.pc = "done", !.outcome = CheckFailedMessage(call.op)]
              ELSE IF call.op = "initializePortfolio"
              THEN [checked EXCEPT !.pc = "rent"]
              ELSE SubmitOrThrow(checked)]
    /\ UNCHANGED <<portfolioAccount, monVars, authVars, consoleLog, decVars, bldVars, pdaVars, uiVars>>

\* initializePortfolio: getMinimumBalanceForRentExemption answers.
Client_Rent(c, transportOk) ==
    /\ calls[c].pc = "rent"
    /\ calls' = [calls EXCEPT ![c] =
           IF transportOk THEN SubmitOrThrow(calls[c])
           ELSE [calls[c] EXCEPT !.pc = "done", !.outcome = "transport error"]]
    /\ UNCHANGED <<portfolioAccount, monVars, authVars, consoleLog, decVars, bldVars, pdaVars, uiVars>>

\* The cluster processes a submitted transaction.  createAccountWithSeed fails
\* on an address in use, and creates the account for the router program
\* otherwise; what the router program does with the other operations is its own.
Client_Confirm(c, programOk) ==
    /\ calls[c].pc = "send"
    /\ LET creates == calls[c].op = "initializePortfolio"
           ok == IF creates THEN ~portfolioAccount.found /\ programOk ELSE programOk
       IN /\ calls' = [calls EXCEPT ![c] =
                 [calls[c] EXCEPT !.pc = "done",
                                  !.outcome = IF ok THEN "signature" ELSE "transaction failed"]]
          /\ portfolioAccount' =
                 IF creates /\ ok
                 THEN [found |-> TRUE, owner |-> ThisClient.routerProgramId]
                 ELSE portfolioAccount
    /\ UNCHANGED <<monVars, authVars, consoleLog, decVars, bldVars, pdaVars, uiVars>>

\* The caller has its answer; the slot is free for the next call.
Client_Return(c) ==
    /\ calls[c].pc = "done"
    /\ calls' = [calls EXCEPT ![c] = NoClientCall]
    /\ UNCHANGED <<portfolioAccount, monVars, authVars, consoleLog, decVars, bldVars, pdaVars, uiVars>>

\* Somebody else creates an account at the portfolio address.
PortfolioCreatedElsewhere(owner) ==
    /\ ~portfolioAccount.found
    /\ portfolioAccount' = [found |-> TRUE, owner |-> owner]
    /\ UNCHANGED <<calls, monVars, authVars, consoleLog, decVars, bldVars, pdaVars, uiVars>>

PortfolioOwners == {ThisClient.routerProgramId, SystemProgramId}

InitClient ==
    /\ AuthIdle /\ DecIdle /\ BldIdle /\ PdaIdle /\ UiIdle /\ MonIdle
    /\ govAccount = NoAccount
    /\ consoleLog = <<>>
    /\ portfolioAccount \in {NoPortfolio} \cup {[found |-> TRUE, owner |-> o] : o \in PortfolioOwners}
    /\ calls = [c \in 1..NumCalls |-> NoClientCall]

NextClient ==
    \/ \E c \in 1..NumCalls, op \in ClientOps, amount \in ClientAmounts : Client_Call(c, op, amount)
    \/ \E c \in 1..NumCalls, transportOk \in BOOLEAN : Client_PortfolioExists(c, transportOk)
    \/ \E c \in 1..NumCalls, transportOk \in BOOLEAN : Client_Rent(c, transportOk)
    \/ \E c \in 1..NumCalls, programOk \in BOOLEAN : Client_Confirm(c, programOk)
    \/ \E c \in 1..NumCalls : Client_Return(c)
    \/ \E owner \in PortfolioOwners : PortfolioCreatedElsewhere(owner)

SpecClient == InitClient /\ [][NextClient]_vars

\* C23: of the initializePortfolio calls of one user that are in flight
\* together, at most one has submitted its transaction.
C23_AtMostOneInitializeSubmits ==
    \A c, d \in 1..NumCalls :
        (/\ c # d
         /\ calls[c].op = "initializePortfolio"
         /\ calls[d].op = "initializePortfolio"
         /\ calls[c].submitted)
            => ~calls[d].submitted

\* C24: a call has submitted a transaction only if the check of this very
\* call found the account present and owned by the router program (deposit,
\* withdraw, placeOrder, addLiquidity) or found no such account
\* (initializePortfolio); a call turned away by its check has thrown the
\* method's message and submitted nothing.
C24_SubmitsOnlyAfterOwnCheck ==
    \A c \in 1..NumCalls :
        LET call == calls[c]
            owned == call.info.found /\ call.info.owner = ThisClient.routerProgramId
        IN /\ call.submitted =>
                 /\ call.exists # "none"
                 /\ call.op = "initializePortfolio" => (call.exists = "false" /\ ~owned)
                 /\ call.op # "initializePortfolio" => (call.exists = "true" /\ owned)
           /\ (call.pc = "done" /\ call.exists = "true" /\ call.op = "initializePortfolio")
                 => (~call.submitted /\ call.outcome = "Portfolio already exists for this user")
           /\ (call.pc = "done" /\ call.exists = "false" /\ call.op # "initializePortfolio")
                 => (~call.submitted /\ call.outcome = CheckFailedMessage(call.op))
           /\ ~call.submitted => call.tx = [kind |-> "none"]

\* a deposit was submitted after its check found the portfolio, and an
\* initializePortfolio was turned away by the same portfolio
C24_Witness ==
    \E c, d \in 1..NumCalls :
        /\ calls[c].op = "deposit" /\ calls[c].submitted /\ calls[c].exists = "true"
        /\ calls[c].tx.kind = "instruction"
        /\ calls[d].op = "initializePortfolio" /\ calls[d].pc = "done"
        /\ calls[d].exists = "true" /\ ~calls[d].submitted
        /\ calls[d].outcome = "Portfolio already exists for this user"

(***************************************************************************)
(* The LP seat of the two liquidity builders (under SpecBuild).            *)
(***************************************************************************)
\* An amount createRouterReserveInstruction accepts.
ReserveAmount == Big(FALSE, 51712, 15258, 0, 0, 0)

\* The reserve and the release instruction for the arguments of the call made.
ReserveOfCall ==
    createRouterReserveInstruction(bargs.user, MatcherState,
        IF bop = "routerReserve" THEN bargs.amount ELSE ReserveAmount,
        bargs.contextId, bargs.programId)

ReleaseOfCall ==
    createRouterReleaseInstruction(bargs.user, MatcherState, bargs.contextId, bargs.programId)

SeatOfCall ==
    deriveLpSeatPda(bargs.programId, MatcherState,
                    createPortfolioAddress(bargs.user, bargs.programId),
                    bargs.contextId, bargs.programId)

\* C25: for a contextId in 0..2^32-1, the account at index 3 of the reserve
\* and of the release instruction built for the same user, matcher, contextId
\* and program is the same, and it is the address deriveLpSeatPda derives.
C25_ReserveAndReleaseShareLpSeat ==
    (bop \in {"routerReserve", "routerRelease"} /\ UInt32InRange(bargs.contextId)
        /\ ix.kind = "instruction")
        => /\ ix = (IF bop = "routerReserve" THEN ReserveOfCall ELSE ReleaseOfCall)
           /\ ReleaseOfCall.kind = "instruction"
           /\ SeatOfCall.threw = "no"
           /\ ReleaseOfCall.keys[4].pubkey = SeatOfCall.address
           /\ ReserveOfCall.kind = "instruction"
                  => ReserveOfCall.keys[4].pubkey = ReleaseOfCall.keys[4].pubkey

\* a reserve was built for contextId 0x12345678, a release exists for it, and
\* the seat is a derived address
C25_Witness ==
    /\ bop = "routerReserve"
    /\ ix.kind = "instruction"
    /\ bargs.contextId = Big(FALSE, 22136, 4660, 0, 0, 0)
    /\ ReleaseOfCall.kind = "instruction"
    /\ ix.keys[4].pubkey = SeatOfCall.address
    /\ ix.keys[4].pubkey.derived = "programAddress"

(***************************************************************************)
(* Signer and writable flags of the program instructions (under SpecBuild).*)
(***************************************************************************)
\* The program instruction of what a builder returned: the instruction
\* itself, or the one that follows the system create-account instruction.
ProgramInstruction(built) ==
    IF built.kind = "instructions" THEN built.list[Len(built.list)] ELSE built

SignerIndexes(keys) == {i \in 1..Len(keys) : keys[i].isSigner}

\* C26: in every program instruction a router or oracle builder produced,
\* exactly one account is marked as signer, it is the second account (index
\* 1), and the first account (index 0) is writable and no signer.
C26_OneSignerAtIndexOne ==
    ix.kind \in {"instruction", "instructions"}
        => LET keys == ProgramInstruction(ix).keys
           IN /\ ProgramInstruction(ix).kind = "instruction"
              /\ Len(keys) >= 2
              /\ SignerIndexes(keys) = {2}
              /\ keys[1].isWritable
              /\ ~keys[1].isSigner

\* the nine-account instruction of executeCrossSlab was built, its signer
\* being the user
C26_Witness ==
    /\ bop = "executeCrossSlab"
    /\ ix.kind = "instruction"
    /\ Len(ix.keys) = 9
    /\ ix.keys[2].pubkey = bargs.user
    /\ SignerIndexes(ix.keys) = {2}

(***************************************************************************)
(* The discriminator byte of every builder (under SpecBuild).              *)
(***************************************************************************)
\* The program and the enumeration value each builder is written for.
BuilderOperation ==
    [initializePortfolio |-> [program |-> "router", value |-> RouterInstruction.InitializePortfolio],
     deposit |-> [program |-> "router", value |-> RouterInstruction.Deposit],
     withdraw |-> [program |-> "router", value |-> RouterInstruction.Withdraw],
     executeCrossSlab |-> [program |-> "router", value |-> RouterInstruction.ExecuteCrossSlab],
     liquidateUser |-> [program |-> "router", value |-> RouterInstruction.LiquidateUser],
     routerReserve |-> [program |-> "router", value |-> RouterInstruction.RouterReserve],
     routerRelease |-> [program |-> "router", value |-> RouterInstruction.RouterRelease],
     initializeOracle |-> [program |-> "oracle", value |-> OracleInstruction.Initialize],
     updatePrice |-> [program |-> "oracle", value |-> OracleInstruction.UpdatePrice]]

\* No two names of an enumeration have the same value.
DistinctValues(enumeration) ==
    \A a, b \in DOMAIN enumeration : a # b => enumeration[a] # enumeration[b]

\* C27: byte 0 of the payload a builder produced is the enumeration value of
\* the builder's own operation, the value fits in one byte, and no other
\* operation of the same program has that value.
C27_FirstByteIdentifiesOperation ==
    ix.kind \in {"instruction", "instructions"}
        => LET first == ProgramInstruction(ix).data[1]
           IN /\ first = BuilderOperation[bop].value
              /\ first \in 0..255
              /\ \A other \in DOMAIN BuilderOperation :
                     (other # bop /\ BuilderOperation[other].program = BuilderOperation[bop].program)
                         => BuilderOperation[other].value # first
              /\ DistinctValues(RouterInstruction)
              /\ DistinctValues(OracleInstruction)

\* a release was built: its first byte is 10, that of a reserve is 9
C27_Witness ==
    /\ bop = "routerRelease"
    /\ ix.kind = "instruction"
    /\ ix.data[1] = 10
    /\ BuilderOperation["routerReserve"].value = 9

(***************************************************************************)
(* The confirmation modal (under SpecButton).                              *)
(***************************************************************************)
\* C28: onConfirm is called only with the modal open, no earlier call
\* pending (loading false) and, when requireTyping is given, the typed text
\* equal to it; the action behind it (build, sign, send) runs only inside
\* such a call, whatever was typed, confirmed or cancelled before.
C28_ConfirmOnlyWithExactText ==
    /\ lastConfirm.result # "none"
           => /\ lastConfirm.open
              /\ ~lastConfirm.loading
              /\ requireTyping # "" => lastConfirm.typed = requireTyping
    /\ mpc # "idle" => (lastConfirm.result = "pending" /\ mloading)
    /\ lastConfirm.result = "pending" => (mloading /\ showConfirmation)
    /\ (signed \/ sent) => lastConfirm.result # "none"

\* the text was typed exactly and confirmed; the transaction is with the
\* wallet while the user types on
C28_Witness ==
    /\ requireTyping = "CONFIRM"
    /\ lastConfirm = [result |-> "pending", open |-> TRUE, loading |-> FALSE, typed |-> "CONFIRM"]
    /\ mpc = "sign"
    /\ typedText = "confirm"

\* A call of onConfirm ends in this step.
HandleConfirmFinishes ==
    /\ lastConfirm' # lastConfirm
    /\ lastConfirm'.result \in {"resolved", "threw"}

\* C29: when handleConfirm finishes, loading is false and the typed text is
\* empty, and the modal is closed exactly if onConfirm did not throw; every
\* closing of the modal empties the typed text, so a closed modal never holds
\* a typed text.
C29_FinishClearsAndClosesUnlessThrown ==
    /\ [](~showConfirmation => typedText = "")
    /\ [][/\ HandleConfirmFinishes
              => /\ ~mloading'
                 /\ typedText' = ""
                 /\ lastConfirm'.result = "resolved" <=> ~showConfirmation'
          /\ (showConfirmation /\ ~showConfirmation') => typedText' = ""]_vars

\* onConfirm threw after the exact text was typed: the modal is still open,
\* not loading, and the text is gone
C29_Witness ==
    /\ requireTyping = "CONFIRM"
    /\ lastConfirm = [result |-> "threw", open |-> TRUE, loading |-> FALSE, typed |-> "CONFIRM"]
    /\ showConfirmation
    /\ ~mloading
    /\ typedText = ""

(***************************************************************************)
(* What the guard shows after a wallet change (under SpecGuard).           *)
(***************************************************************************)
\* The environment value PermissionGuard compares the wallet with.
ConfiguredAuthority ==
    IF requiredPermission = "governance" THEN envGovernance ELSE envInsurance

\* C30: for a permission other than PUBLIC the guard shows its children only
\* while the connected wallet is the configured authority, in every rendered
\* state, also the one that follows a change of the wallet; with a missing or
\* malformed authority it never shows them.
C30_ChildrenOnlyForCurrentAuthority ==
    (view = "children" /\ requiredPermission # "public")
        => /\ ConfiguredAuthority.kind = "key"
           /\ walletKey # NoKey
           /\ PublicKeyEquals(walletKey, ConfiguredAuthority.key)

====
